---------------------------- MODULE Spec2Model ----------------------------
(***************************************************************************)
(* Statement store (mhdb/ingest.py) and Turtle serializer                  *)
(* (mhdb/write_ttl.py) of mhdb.                                            *)
(*                                                                         *)
(* Python strings are sequences of one-character strings, so that the      *)
(* substring tests, splits and joins of the code are computed.  A Python   *)
(* dict is a record [keys, val]: keys is the insertion order (the order    *)
(* iteration follows), val the mapping.  The value stored under            *)
(* store[subject][predicate] is a record [kind, objs, items]: a Python     *)
(* set (kind "set", objs) or a Python list (kind "list", items).           *)
(***************************************************************************)
EXTENDS Integers, Sequences, FiniteSets, TLC

VARIABLES
    statements,          \* the statement store of the current conversion run
    add_if_defaults,     \* the dict bound to add_if's default `statements={}`
    doi_iri_defaults,    \* the dict bound to doi_iri's default `statements={}`
    audience_defaults,   \* the dict bound to audience_statements' default
    aliased,             \* subjects whose inner dict object is held by both
                         \* `statements` and `doi_iri_defaults`
    added,               \* the triples of the AddIf calls made since the run
                         \* began
    last,                \* the last call: [op, s, p, o]
    out,                 \* the text the last serializer call returned
    err,                 \* "none", or the exception the last call raised
    ncalls,              \* number of calls made so far
    iri,                 \* check_iri: the argument
    prefixes,            \* check_iri: the prefix table
    iri_result,          \* check_iri: the result
    label_arg,           \* convert_string_to_label: the argument
    label_result,        \* convert_string_to_label: the result
    lookup_cell,         \* object_split_lookup: the cell
    lookup_sep,          \* object_split_lookup: the separator
    lookup_table,        \* object_split_lookup: the rows (key, value) of the
                         \* foreign table
    lookup_result,       \* object_split_lookup: the result
    sheet,               \* the sheet given to an ingestor: [name, rows]
    pending_call,        \* a call of one of the document functions: [op, args]
    call_result          \* what that call returned

vars == <<statements, add_if_defaults, doi_iri_defaults, audience_defaults,
          aliased, added, last, out, err, ncalls, iri, prefixes, iri_result,
          label_arg, label_result, lookup_cell, lookup_sep,
          lookup_table, lookup_result, sheet, pending_call, call_result>>

storeVars == <<statements, add_if_defaults, doi_iri_defaults,
               audience_defaults, aliased, added, last, out, err, ncalls>>

iriVars == <<iri, prefixes, iri_result>>

labelVars == <<label_arg, label_result>>

lookupVars == <<lookup_cell, lookup_sep, lookup_table, lookup_result>>

\* what the store operations leave alone
inputVars == <<iriVars, labelVars, lookupVars, sheet, pending_call,
               call_result>>

(***************************************************************************)
(* Bounds.                                                                 *)
(***************************************************************************)
MaxCalls == 2        \* calls explored in one interpreter session
MaxIriLen == 5       \* length of the strings given to check_iri
MaxPairs == 2        \* predicate/object pairs given to write_ttl
MaxLabelLen == 4     \* length of the strings given to convert_string_to_label
MaxCellLen == 4      \* length of the cells given to object_split_lookup
MaxRows == 2         \* rows of a sheet given to an ingestor
MaxPrefixes == 2     \* prefixes given to write_header and print_header
MaxDepth == 4        \* frames of gather_Rs and rdf_nb before RecursionError

(***************************************************************************)
(* Strings.                                                                *)
(***************************************************************************)
Lower == {"a","b","c","d","e","f","g","h","i","j","k","l","m",
          "n","o","p","q","r","s","t","u","v","w","x","y","z"}
Upper == {"A","B","C","D","E","F","G","H","I","J","K","L","M",
          "N","O","P","Q","R","S","T","U","V","W","X","Y","Z"}
Digit == {"0","1","2","3","4","5","6","7","8","9"}

\* a letter outside ASCII: str.isalnum() is True for it
NonAsciiAlnum == {"é"}

\* str.isalnum() of one character
isalnum(c) == c \in Lower \cup Upper \cup Digit \cup NonAsciiAlnum

\* str.isspace() of one character, as str.strip() uses it
isspace(c) == c \in {" ", "\t", "\n", "\r"}

\* `sub in s`
Contains(s, sub) ==
    \E i \in 1..(Len(s) - Len(sub) + 1) : SubSeq(s, i, i + Len(sub) - 1) = sub

\* s.endswith(sub)
EndsWith(s, sub) ==
    /\ Len(sub) <= Len(s)
    /\ SubSeq(s, Len(s) - Len(sub) + 1, Len(s)) = sub

\* s.startswith(sub)
StartsWith(s, sub) ==
    /\ Len(sub) <= Len(s)
    /\ SubSeq(s, 1, Len(sub)) = sub

\* s.split(sep)[0] for a one-character sep
SplitHead(s, sep) ==
    IF \E i \in 1..Len(s) : s[i] = sep
    THEN LET i == CHOOSE j \in 1..Len(s) :
                      /\ s[j] = sep
                      /\ \A k \in 1..(j - 1) : s[k] # sep
         IN SubSeq(s, 1, i - 1)
    ELSE s

\* sep.join(parts)
RECURSIVE Join(_, _)
Join(parts, sep) ==
    IF parts = <<>> THEN <<>>
    ELSE IF Len(parts) = 1 THEN parts[1]
    ELSE parts[1] \o sep \o Join(Tail(parts), sep)

\* the positions at which sub occurs in s
Occurrences(s, sub) ==
    {i \in 1..(Len(s) - Len(sub) + 1) : SubSeq(s, i, i + Len(sub) - 1) = sub}

\* s.find(sub) + 1, for a sub that occurs in s
FirstIndex(s, sub) ==
    CHOOSE i \in Occurrences(s, sub) : \A j \in Occurrences(s, sub) : i <= j

\* s.split(sep): the list of pieces between the occurrences of sep, found
\* from the left
RECURSIVE Split(_, _)
Split(s, sep) ==
    IF Occurrences(s, sep) = {} THEN <<s>>
    ELSE <<SubSeq(s, 1, FirstIndex(s, sep) - 1)>>
            \o Split(SubSeq(s, FirstIndex(s, sep) + Len(sep), Len(s)), sep)

\* s.replace(old, new): non-overlapping occurrences, left to right
Replace(s, old, new) == Join(Split(s, old), new)

\* s with olds[i] replaced by news[i], for i = 1, 2, ... in turn
RECURSIVE ReplaceEach(_, _, _)
ReplaceEach(s, olds, news) ==
    IF olds = <<>> THEN s
    ELSE ReplaceEach(Replace(s, olds[1], news[1]), Tail(olds), Tail(news))

\* s.lstrip()
LStrip(s) ==
    IF \A i \in 1..Len(s) : isspace(s[i]) THEN <<>>
    ELSE SubSeq(s, CHOOSE i \in 1..Len(s) :
                       /\ ~isspace(s[i])
                       /\ \A j \in 1..(i - 1) : isspace(s[j]),
                Len(s))

\* s.rstrip()
RStrip(s) ==
    IF \A i \in 1..Len(s) : isspace(s[i]) THEN <<>>
    ELSE SubSeq(s, 1, CHOOSE i \in 1..Len(s) :
                          /\ ~isspace(s[i])
                          /\ \A j \in (i + 1)..Len(s) : isspace(s[j]))

\* s.strip()
Strip(s) == LStrip(RStrip(s))

\* the characters convert_string_to_label keeps besides the alphanumeric
keep_chars == {"-", "_"}

\* the test of the generator expression of convert_string_to_label
KeepLabelChar(c) == isalnum(c) \/ c \in keep_chars

\* "".join(c for c in s if c.isalnum() or c in keep_chars)
KeepLabelChars(s) == SelectSeq(s, KeepLabelChar)

\* Python values that are not strings, as a cell of a sheet or an argument can
\* hold them: None, the float nan of an empty cell, an int, and a float with
\* an integral value (PyFloat(<<"2">>) is 2.0).  The first element is a tag
\* that no string starts with.
PyNone == <<"<None>">>
NaN == <<"<nan>">>
PyInt(digits) == <<"<int>">> \o digits
PyFloat(digits) == <<"<float>">> \o digits

\* isinstance(x, str)
IsStr(x) == x = <<>> \/ x[1] \notin {"<None>", "<nan>", "<int>", "<float>"}

\* isinstance(x, float)
IsFloat(x) == x = NaN \/ (x # <<>> /\ x[1] = "<float>")

\* str(x)
PyStr(x) ==
    IF x = PyNone THEN <<"N","o","n","e">>
    ELSE IF x = NaN THEN <<"n","a","n">>
    ELSE IF IsStr(x) THEN x
    ELSE IF x[1] = "<float>" THEN Tail(x) \o <<".", "0">>
    ELSE Tail(x)

\* The result of a call that returns a string, returns None or raises.
Str(s) == [kind |-> "str", val |-> s]
None == [kind |-> "None", val |-> <<>>]
Raise == [kind |-> "raise", val |-> <<>>]

\* spreadsheet_io.convert_string_to_label
convert_string_to_label(input_string) ==
    IF input_string # <<>> /\ IsStr(input_string)
    THEN Str(RStrip(KeepLabelChars(
             Replace(Replace(Strip(input_string), <<" ">>, <<"_">>),
                     <<"_","-","_">>, <<"-">>))))
    ELSE Raise

\* write_ttl.mhdb_iri
mhdb_iri(label) ==
    LET slug == convert_string_to_label(label)
    IN IF slug.kind = "str"
       THEN Str(<<"m","h","d","b">> \o <<":">> \o slug.val)
       ELSE Raise

\* prefix_strings of check_iri
prefix_strings(pfx) == {<<>>, <<"_">>} \cup {pfx[i][1] : i \in 1..Len(pfx)}

\* write_ttl.check_iri; `pfx` is the list of (prefix, IRI) pairs, empty for
\* None.  The argument is first turned into a string.
RECURSIVE check_iri(_, _)
check_iri(x, pfx) ==
    LET v == PyStr(x) IN
    IF Contains(v, <<":">>) /\ ~Contains(v, <<":"," ">>)
    THEN IF EndsWith(v, <<":">>)
         THEN check_iri(SubSeq(v, 1, Len(v) - 1), pfx)
         ELSE IF SplitHead(v, ":") \in prefix_strings(pfx)
         THEN Str(v)
         ELSE IF Contains(v, <<":","/">>)
         THEN Str(<<"<">> \o v \o <<">">>)
         ELSE None
    ELSE mhdb_iri(v)

\* write_ttl.language_string: the text in triple quotes with the language
\* tag, a double quote replaced by a single quote; nothing for an empty text
language_string(text) ==
    IF text = <<>> THEN <<>>
    ELSE <<"\"","\"","\"">> \o Replace(text, <<"\"">>, <<"'">>)
            \o <<"\"","\"","\"","@","e","n">>


(***************************************************************************)
(* Python dicts, sets and lists.                                           *)
(***************************************************************************)
EmptyDict == [keys |-> <<>>, val |-> <<>>]

\* `k in d`
Has(d, k) == k \in DOMAIN d.val

\* d[k] = v: a new key goes to the end of the iteration order
Put(d, k, v) ==
    [keys |-> IF Has(d, k) THEN d.keys ELSE Append(d.keys, k),
     val  |-> [x \in DOMAIN d.val \cup {k} |-> IF x = k THEN v ELSE d.val[x]]]

\* {**a, **b}: a copy of a, then every item of b assigned in b's order
RECURSIVE PutAll(_, _, _)
PutAll(a, b, ks) ==
    IF ks = <<>> THEN a
    ELSE PutAll(Put(a, Head(ks), b.val[Head(ks)]), b, Tail(ks))

DictMerge(a, b) == PutAll(a, b, b.keys)

\* a set {..} and a list [..] stored under a predicate
PySet(S) == [kind |-> "set", objs |-> S, items |-> <<>>]
PyList(l) == [kind |-> "list", objs |-> {}, items |-> l]

\* the objects a stored value holds
Elems(v) ==
    IF v.kind = "set" THEN v.objs ELSE {v.items[i] : i \in 1..Len(v.items)}

\* the triples of a store
Triples(st) ==
    UNION { UNION { {<<s, p, o>> : o \in Elems(st.val[s].val[p])}
                    : p \in DOMAIN st.val[s].val }
            : s \in DOMAIN st.val }

\* Python's == on two stores: the iteration order of a dict is not compared
StoreEq(a, b) ==
    /\ DOMAIN a.val = DOMAIN b.val
    /\ \A s \in DOMAIN a.val : a.val[s].val = b.val[s].val

(***************************************************************************)
(* ingest.add_if.  Returns the store and the exception raised, if any.     *)
(***************************************************************************)
add_if_lost_first(subject, predicate, object, st) ==
    LET st1 == IF ~Has(st, subject) THEN Put(st, subject, EmptyDict) ELSE st
        inner == st1.val[subject]
    IN IF ~Has(inner, predicate)
       THEN [st  |-> Put(st1, subject, Put(inner, predicate, PySet({}))),
             err |-> "none"]
       ELSE IF inner.val[predicate].kind = "set"
       THEN [st  |-> Put(st1, subject, Put(inner, predicate,
                         PySet(inner.val[predicate].objs \cup {object}))),
             err |-> "none"]
       ELSE [st |-> st1, err |-> "AttributeError"]

add_if_overwrite(subject, predicate, object, st) ==
    LET st1 == IF ~Has(st, subject) THEN Put(st, subject, EmptyDict) ELSE st
        inner == st1.val[subject]
    IN [st  |-> Put(st1, subject, Put(inner, predicate, PySet({object}))),
        err |-> "none"]

add_if(subject, predicate, object, st) ==
    LET st1 == IF ~Has(st, subject) THEN Put(st, subject, EmptyDict) ELSE st
        inner == st1.val[subject]
    IN IF ~Has(inner, predicate)
       THEN [st  |-> Put(st1, subject, Put(inner, predicate, PySet({object}))),
             err |-> "none"]
       ELSE IF inner.val[predicate].kind = "set"
       THEN [st  |-> Put(st1, subject, Put(inner, predicate,
                         PySet(inner.val[predicate].objs \cup {object}))),
             err |-> "none"]
       ELSE [st |-> st1, err |-> "AttributeError"]

(***************************************************************************)
(* write_ttl.turtle_from_dict and write_ttl.write_ttl.                     *)
(***************************************************************************)
\* `body` of the value of x: a local variable that is assigned once, and
\* evaluated once
Bind(x, body(_)) == CHOOSE r \in {body(v) : v \in {x}} : TRUE

\* the orders in which a set can be iterated
RECURSIVE Perms(_)
Perms(S) ==
    IF S = {} THEN {<<>>}
    ELSE UNION { {<<x>> \o q : q \in Perms(S \ {x})} : x \in S }

ObjectOrders_first(v) ==
    IF v.kind = "set" THEN {<<x>> : x \in v.objs} ELSE {v.items}

\* the orders in which `for object in ttl_dict[subject][predicate]` can run
ObjectOrders(v) == IF v.kind = "set" THEN Perms(v.objs) ELSE {v.items}

\* "{0} {1}".format(predicate, object)
PredicateObject(predicate, object) ==
    PyStr(predicate) \o <<" ">> \o PyStr(object)

\* the inner list comprehension of turtle_from_dict: the 'predicate object'
\* strings of one subject, for each iteration order of its sets
RECURSIVE PairSeqs(_, _)
PairSeqs(inner, preds) ==
    IF preds = <<>> THEN {<<>>}
    ELSE { [i \in 1..Len(ord) |-> PredicateObject(Head(preds), ord[i])] \o rest :
             ord \in ObjectOrders(inner.val[Head(preds)]),
             rest \in PairSeqs(inner, Tail(preds)) }

StatementBlock_trailing(subject, pairs) ==
    PyStr(subject) \o <<" ">> \o Join(pairs, <<" ",";","\n","\t">>)
        \o <<" ",";","\n","\t">> \o <<" ",".">>

\* "{0} {1} .".format(subject, " ;\n\t".join(pairs))
StatementBlock(subject, pairs) ==
    PyStr(subject) \o <<" ">> \o Join(pairs, <<" ",";","\n","\t">>)
        \o <<" ",".">>

\* the outer list comprehension of turtle_from_dict: one block per subject
RECURSIVE BlockSeqs(_, _)
BlockSeqs(d, subjects) ==
    IF subjects = <<>> THEN {<<>>}
    ELSE { <<StatementBlock(Head(subjects), pairs)>> \o rest :
             pairs \in PairSeqs(d.val[Head(subjects)],
                                d.val[Head(subjects)].keys),
             rest \in BlockSeqs(d, Tail(subjects)) }

\* turtle_from_dict: the texts it can return (one per iteration order of the
\* object sets)
turtle_from_dict(ttl_dict) ==
    { Join(blocks, <<"\n","\n">>) : blocks \in BlockSeqs(ttl_dict, ttl_dict.keys) }

\* " ".join([predicate[0], predicate[1]]) for predicate in predicates
PairStrings(predicates) ==
    [i \in 1..Len(predicates) |->
        Join(<<predicates[i][1], predicates[i][2]>>, <<" ">>)]

\* write_ttl without common_statements (write_ttl.py 293-306)
write_ttl_plain(subject, predicates) ==
    StatementBlock(subject, PairStrings(predicates))

\* write_about_statement with the blank node named after the subject alone
write_about_statement_subject_only(subject, predicate, object, predicates) ==
    write_ttl_plain(
        <<"_",":">> \o convert_string_to_label(subject).val,
        << <<(<<"r","d","f",":","t","y","p","e">>),
             (<<"r","d","f",":","S","t","a","t","e","m","e","n","t">>)>>,
           <<(<<"r","d","f",":","s","u","b","j","e","c","t">>), subject>>,
           <<(<<"r","d","f",":","p","r","e","d","i","c","a","t","e">>), predicate>>,
           <<(<<"r","d","f",":","o","b","j","e","c","t">>), object>> >>
        \o predicates)

\* write_ttl.write_about_statement
write_about_statement(subject, predicate, object, predicates) ==
    write_ttl_plain(
        <<"_",":">> \o convert_string_to_label(
            Join(<<subject, predicate, object>>, <<"_">>)).val,
        << <<(<<"r","d","f",":","t","y","p","e">>),
             (<<"r","d","f",":","S","t","a","t","e","m","e","n","t">>)>>,
           <<(<<"r","d","f",":","s","u","b","j","e","c","t">>), subject>>,
           <<(<<"r","d","f",":","p","r","e","d","i","c","a","t","e">>), predicate>>,
           <<(<<"r","d","f",":","o","b","j","e","c","t">>), object>> >>
        \o predicates)

\* write_ttl.write_ttl; common_statements is <<>> for None
write_ttl(subject, predicates, common_statements) ==
    LET about == IF common_statements # <<>>
                 THEN Join([i \in 1..Len(predicates) |->
                               write_about_statement(subject, predicates[i][1],
                                   predicates[i][2], common_statements)],
                           <<"\n","\n">>)
                 ELSE <<>>
        head == IF Len(about) > 0 THEN about \o <<"\n","\n">> ELSE <<>>
    IN head \o write_ttl_plain(subject, predicates)


(***************************************************************************)
(* ingest.audience_statements, ingest.doi_iri, the statements disorder_iri *)
(* returns, and the two merges of ingest.Project.                          *)
(***************************************************************************)
rdfs_label == <<"r","d","f","s",":","l","a","b","e","l">>
rdfs_subClassOf == <<"r","d","f","s",":","s","u","b","C","l","a","s","s","O","f">>
schema_PeopleAudience ==
    <<"s","c","h","e","m","a",":","P","e","o","p","l","e","A","u","d","i","e","n","c","e">>
schema_requiredGender ==
    <<"s","c","h","e","m","a",":","r","e","q","u","i","r","e","d","G","e","n","d","e","r">>
dcterms_subject == <<"d","c","t","e","r","m","s",":","s","u","b","j","e","c","t">>
Male == <<"M","a","l","e">>
Female == <<"F","e","m","a","l","e">>
Audience == <<"A","u","d","i","e","n","c","e">>

\* gendered_iri of audience_statements
gendered_iri(gendered_audience) ==
    check_iri(Join(<<gendered_audience, Audience>>, <<>>), <<>>).val

\* g_statements of audience_statements
g_statements(gendered_audience) ==
    Put(Put(Put(EmptyDict,
        rdfs_subClassOf, PySet({schema_PeopleAudience})),
        rdfs_label, PySet({language_string(
            Join(<<gendered_audience, Audience>>, <<" ">>))})),
        schema_requiredGender,
            PySet({<<"s","c","h","e","m","a",":">> \o gendered_audience}))

audience_step_keep_old(st, gendered_audience) ==
    IF ~Has(st, gendered_iri(gendered_audience))
    THEN Put(st, gendered_iri(gendered_audience), g_statements(gendered_audience))
    ELSE Put(st, gendered_iri(gendered_audience),
             DictMerge(g_statements(gendered_audience),
                       st.val[gendered_iri(gendered_audience)]))

\* one pass of the loop of audience_statements
audience_step(st, gendered_audience) ==
    IF ~Has(st, gendered_iri(gendered_audience))
    THEN Put(st, gendered_iri(gendered_audience), g_statements(gendered_audience))
    ELSE Put(st, gendered_iri(gendered_audience),
             DictMerge(st.val[gendered_iri(gendered_audience)],
                       g_statements(gendered_audience)))

\* audience_statements; `order` is the order in which the set
\* {"Male", "Female"} is iterated
audience_statements(st, order) ==
    audience_step(audience_step(st, order[1]), order[2])

\* local_iri of doi_iri
doi_local_iri(doi) ==
    check_iri(<<"h","t","t","p","s",":","/","/","d","x",".","d","o","i",".",
                "o","r","g","/">> \o doi, <<>>).val

\* doi_iri; title is <<>> for None.  An exception of add_if ends the call.
doi_iri(doi, title, st) ==
    LET a1 == add_if(doi_local_iri(doi),
                  <<"d","a","t","a","c","i","t","e",":","u","s","e","s","I","d",
                    "e","n","t","i","f","i","e","r","S","c","h","e","m","e">>,
                  <<"d","a","t","a","c","i","t","e",":","d","o","i">>, st)
        a2 == add_if(doi_local_iri(doi),
                  <<"d","a","t","a","c","i","t","e",":","h","a","s","I","d","e",
                    "n","t","i","f","i","e","r">>,
                  <<"\"","\"","\"">> \o doi \o
                  <<"\"","\"","\"","^","^","r","d","f","s",":","L","i","t","e","r","a","l">>,
                  a1.st)
        a3 == add_if(doi_local_iri(doi), rdfs_label, language_string(title), a2.st)
    IN IF a1.err # "none" THEN a1
       ELSE IF a2.err # "none" THEN a2
       ELSE IF title # <<>> THEN a3
       ELSE a2

\* the statements disorder_iri returns for a composed disorder name
disorder_statements(disorder_name) ==
    Put(EmptyDict, check_iri(disorder_name, <<>>).val,
        Put(EmptyDict, rdfs_label, PyList(<<language_string(disorder_name)>>)))

\* the DOI and title Project passes to doi_iri
ProjectDoi ==
    <<"1","0",".","1","1","0","9","/","I","E","E","E","S","T","D",".",
      "2","0","1","5",".","7","0","8","4","0","7","3">>
ProjectDoiTitle ==
    <<"1","8","7","2","-","2","0","1","5"," ","-"," ","I","E","E","E"," ",
      "S","t","a","n","d","a","r","d"," ","O","n","t","o","l","o","g","i","e","s",
      " ","f","o","r"," ","R","o","b","o","t","i","c","s"," ","a","n","d"," ",
      "A","u","t","o","m","a","t","i","o","n">>

\* Project, 1016-1022: {**doi_iri(...), **statements}
merge_doi(doi_store, st) == DictMerge(doi_store, st)

\* Project, 1301-1304: {**statements, **disorder_statements}
merge_disorder(st, disorder_name) ==
    DictMerge(st, disorder_statements(disorder_name))

\* Project, 1295-1305
add_disorder(project_iri, disorder_name, st) ==
    add_if(project_iri, dcterms_subject,
           disorder_statements(disorder_name).keys[1],
           merge_disorder(st, disorder_name))

(***************************************************************************)
(* ingest.BehaviorSheet1.  A row of Sheet1 is a record [symptom,           *)
(* sign_or_symptom_index, reference_index, gender_index]; the Reference    *)
(* sheet is the list of its rows [index, ReferenceName, ReferenceLink];    *)
(* the gender sheet is the list of its rows (index, gender).               *)
(***************************************************************************)
dcterms_source == <<"d","c","t","e","r","m","s",":","s","o","u","r","c","e">>
schema_audience == <<"s","c","h","e","m","a",":","a","u","d","i","e","n","c","e">>
schema_epidemiology == <<"s","c","h","e","m","a",":","e","p","i","d","e","m","i","o","l","o","g","y">>
MedicalSign == <<"h","e","a","l","t","h","-","l","i","f","e","s","c","i",":","M","e","d","i","c","a","l","S","i","g","n">>
MedicalSymptom == <<"h","e","a","l","t","h","-","l","i","f","e","s","c","i",":","M","e","d","i","c","a","l","S","y","m","p","t","o","m">>
MedicalSignOrSymptom ==
    <<"h","e","a","l","t","h","-","l","i","f","e","s","c","i",":","M","e","d","i","c","a","l","S","i","g","n","O","r","S","y","m","p","t","o","m">>

\* the value a call returned: None, or the string
Returned(r) == IF r.kind = "None" THEN PyNone ELSE r.val

\* bool(x) of None, a string or a float nan
Truthy(x) == x \notin {PyNone, <<>>, PyInt(<<"0">>), PyFloat(<<"0">>)}

\* table[table[key_column] == key][value_column].values
ColumnValues(table, key_column, key, value_column) ==
    LET rows == SelectSeq(table, LAMBDA row : row[key_column] = key)
    IN [i \in 1..Len(rows) |-> rows[i][value_column]]

\* one pass of the loop over the rows of Sheet1
BehaviorSheet1Row(row, mh_reference, gender, st) ==
    LET sign_or_symptom ==
            IF row.sign_or_symptom_index = 1 THEN MedicalSign
            ELSE IF row.sign_or_symptom_index = 2 THEN MedicalSymptom
            ELSE MedicalSignOrSymptom
        links == ColumnValues(mh_reference, "index", row.reference_index,
                              "ReferenceLink")
        source_r == IF IsFloat(links[1]) THEN None
                    ELSE check_iri(links[1], <<>>)
        symptom_label == language_string(row.symptom)
        symptom_r == check_iri(row.symptom, <<>>)
        genders == ColumnValues(gender, 1, row.gender_index, 2)
        audience_gender == IF Len(genders) = 0 THEN PyNone ELSE genders[1]
        a1 == add_if(Returned(symptom_r), rdfs_label, symptom_label, st)
        a2 == add_if(Returned(symptom_r), rdfs_subClassOf, sign_or_symptom,
                     a1.st)
        a3 == add_if(Returned(symptom_r), dcterms_source, Returned(source_r),
                     a2.st)
        a4 == add_if(Returned(symptom_r), schema_audience, audience_gender,
                     a3.st)
        a5 == add_if(Returned(symptom_r), schema_epidemiology, audience_gender,
                     a4.st)
    IN IF Len(links) = 0 THEN [st |-> st, err |-> "IndexError"]
       ELSE IF source_r = Raise \/ symptom_r = Raise
       THEN [st |-> st, err |-> "Exception"]
       ELSE IF a1.err # "none" THEN a1
       ELSE IF a2.err # "none" THEN a2
       ELSE IF a3.err # "none" THEN a3
       ELSE IF ~Truthy(audience_gender) THEN a3
       ELSE IF a4.err # "none" THEN a4
       ELSE a5

\* the loop over the rows of Sheet1: an exception ends it, and the store
\* keeps what was added before
RECURSIVE BehaviorSheet1Rows(_, _, _, _)
BehaviorSheet1Rows(rows, mh_reference, gender, st) ==
    IF rows = <<>> THEN [st |-> st, err |-> "none"]
    ELSE LET r == BehaviorSheet1Row(Head(rows), mh_reference, gender, st)
         IN IF r.err # "none" THEN r
            ELSE BehaviorSheet1Rows(Tail(rows), mh_reference, gender, r.st)

\* BehaviorSheet1; `order` is the order in which audience_statements
\* iterates its set
BehaviorSheet1(rows, mh_reference, gender, st, order) ==
    BehaviorSheet1Rows(rows, mh_reference, gender,
                       audience_statements(st, order))

(***************************************************************************)
(* ingest.MHealthPeople.  A row of the MHealthPeople sheet is a record     *)
(* [URL, Labs, Site, Affiliate]: Labs is the column "MHealthPeople/Labs",  *)
(* Affiliate the content of each of the columns Affiliate1 .. Affiliate9.  *)
(***************************************************************************)
mhdb_site == <<"m","h","d","b",":","s","i","t","e">>
rdfs_comment == <<"r","d","f","s",":","c","o","m","m","e","n","t">>
rdfs_range == <<"r","d","f","s",":","r","a","n","g","e">>
rdf_type == <<"r","d","f",":","t","y","p","e">>
schema_WebPage == <<"s","c","h","e","m","a",":","W","e","b","P","a","g","e">>

\* the statements about mhdb:site that MHealthPeople adds first
SiteStatements ==
    << <<rdfs_label, language_string(<<"s","i","t","e">>)>>,
       <<rdfs_comment, language_string(
           <<"S","i","t","e",","," ","p","l","a","c","e"," ","o","r"," ","l","o","c","a","t","i","o","n"," ","o","f"," ","a","n","y","t","h","i","n","g",".">>)>>,
       <<rdfs_range, <<"s","c","h","e","m","a",":","P","l","a","c","e">>>>,
       <<rdfs_range, <<"d","c","t","e","r","m","s",":","L","o","c","a","t","i","o","n">>>>,
       <<rdf_type, <<"r","d","f",":","P","r","o","p","e","r","t","y">>>> >>

\* `for pred in preds: statements = add_if(subject, pred[0], pred[1],
\* statements)`, from the result r of what ran before; an exception ends it
RECURSIVE add_each(_, _, _)
add_each(subject, preds, r) ==
    IF preds = <<>> \/ r.err # "none" THEN r
    ELSE add_each(subject, Tail(preds),
                  add_if(subject, Head(preds)[1], Head(preds)[2], r.st))

\* the test that guards the body of the loop over Affiliate1 .. Affiliate9
AffiliatePresent(cell) ==
    Truthy(cell) /\ Len(PyStr(cell)) # 0 /\ ~IsFloat(cell)

\* one pass of the loop over the rows of MHealthPeople: the results it can
\* have, one per iteration order of the set `predicates`.  The rows explored
\* hold no affiliate, so the body of the affiliate loop is not entered.
MHealthPeopleRow(row, st) ==
    LET person_iri_r == check_iri(row.URL, <<>>)
        person_label ==
            IF /\ Len(PyStr(row.Labs)) # 0
               /\ ~IsFloat(row.Labs)
               /\ ~StartsWith(PyStr(row.Labs), <<"A","l","s","o">>)
            THEN language_string(row.Labs)
            ELSE PyNone
        person_place_r ==
            IF Len(Strip(PyStr(row.Site))) # 0 /\ ~IsFloat(row.Site)
            THEN check_iri(row.Site, <<>>)
            ELSE None
        person_iri == Returned(person_iri_r)
        person_place == Returned(person_place_r)
        placed == IF Truthy(person_place)
                  THEN add_if(person_place, rdfs_label,
                              language_string(row.Site), st)
                  ELSE [st |-> st, err |-> "none"]
        predicates ==
            (IF Truthy(person_label) THEN {<<rdfs_label, person_label>>}
             ELSE {})
            \cup (IF Truthy(person_place) THEN {<<mhdb_site, person_place>>}
                  ELSE {})
            \cup (IF Contains(person_iri, <<"<">>)
                  THEN {<<schema_WebPage, person_iri>>} ELSE {})
    IN IF person_iri_r = Raise \/ person_place_r = Raise
       THEN {[st |-> st, err |-> "Exception"]}
       ELSE IF placed.err # "none" THEN {placed}
       ELSE IF person_iri = PyNone
       THEN {[st |-> placed.st, err |-> "TypeError"]}
       ELSE IF AffiliatePresent(row.Affiliate)
       THEN {[st |-> placed.st, err |-> "affiliate"]}
       ELSE {add_each(person_iri, order, placed) : order \in Perms(predicates)}

\* the loop over the rows of MHealthPeople
RECURSIVE MHealthPeopleRows(_, _)
MHealthPeopleRows(rows, r) ==
    IF rows = <<>> \/ r.err # "none" THEN {r}
    ELSE UNION { MHealthPeopleRows(Tail(rows), q) :
                    q \in MHealthPeopleRow(Head(rows), r.st) }

\* MHealthPeople: the results it can have
MHealthPeople(rows, st) ==
    MHealthPeopleRows(rows,
        add_each(mhdb_site, SiteStatements, [st |-> st, err |-> "none"]))

(***************************************************************************)
(* create_mhdbnb.rdf_nb: the reference of a symptom, 223-245.              *)
(***************************************************************************)
rdf_nb_reference(refindex, References) ==
    LET links == ColumnValues(References, "index", refindex, "ReferenceLink")
        names == ColumnValues(References, "index", refindex, "ReferenceName")
    IN IF Len(links) = 0 THEN PyNone
       ELSE IF IsStr(links[1]) THEN <<"<">> \o links[1] \o <<">">>
       ELSE IF convert_string_to_label(names[1]) = Raise THEN PyNone
       ELSE <<"m","h","d","b",":">> \o convert_string_to_label(names[1]).val

(***************************************************************************)
(* ingest.object_split_lookup.  The foreign table is the list of its rows  *)
(* (key, value), the key an integer.                                       *)
(***************************************************************************)
\* the value of one digit
DigitValue(c) ==
    CHOOSE n \in 0..9 : <<"0","1","2","3","4","5","6","7","8","9">>[n + 1] = c

\* the value of a string of digits
RECURSIVE DigitsValue(_)
DigitsValue(ds) ==
    IF ds = <<>> THEN 0
    ELSE 10 * DigitsValue(SubSeq(ds, 1, Len(ds) - 1)) + DigitValue(ds[Len(ds)])

IsDigit(c) == c \in Digit

\* int(s) of a string: [ok, val], ok FALSE where int raises ValueError.
\* Whitespace around the number, a sign, and single underscores between
\* digits are accepted.
ParseInt(s) ==
    LET u == Strip(s)
        signed == u # <<>> /\ u[1] \in {"+", "-"}
        body == IF signed THEN Tail(u) ELSE u
        valid == /\ body # <<>>
                 /\ IsDigit(body[1])
                 /\ IsDigit(body[Len(body)])
                 /\ \A i \in 1..Len(body) : IsDigit(body[i]) \/ body[i] = "_"
                 /\ \A i \in 1..(Len(body) - 1) :
                        ~(body[i] = "_" /\ body[i + 1] = "_")
        n == DigitsValue(SelectSeq(body, IsDigit))
    IN IF ~valid THEN [ok |-> FALSE, val |-> 0]
       ELSE [ok |-> TRUE, val |-> IF signed /\ u[1] = "-" THEN 0 - n ELSE n]

\* lookup_sheet[lookup_sheet[key_column] == key][value_column].values
MatchingValues(lookup_sheet, key) ==
    LET rows == SelectSeq(lookup_sheet, LAMBDA row : row[1] = key)
    IN [i \in 1..Len(rows) |-> rows[i][2]]

FirstValue_last(lookup_sheet, key) ==
    MatchingValues(lookup_sheet, key)[Len(MatchingValues(lookup_sheet, key))]

\* ....values[0], for a key that has a row
FirstValue(lookup_sheet, key) == MatchingValues(lookup_sheet, key)[1]

\* a list that a call returns
ListResult(items) == [kind |-> "list", val |-> items]

\* object_split_lookup.  Every exception raised inside the try block ends
\* in `return([])`.
object_split_lookup(object_indices, lookup_sheet, separator) ==
    IF ~IsFloat(object_indices) /\ Len(Strip(PyStr(object_indices))) # 0
    THEN LET s == PyStr(object_indices) IN
         IF ~Contains(s, separator)
         THEN LET key == ParseInt(s) IN
              IF ~key.ok THEN ListResult(<<>>)
              ELSE IF Len(MatchingValues(lookup_sheet, key.val)) # 0
              THEN LET r == check_iri(FirstValue(lookup_sheet, key.val), <<>>)
                   IN IF r = Raise THEN ListResult(<<>>)
                      ELSE ListResult(<<r>>)
              ELSE None
         ELSE IF separator = <<>> THEN ListResult(<<>>)
         ELSE LET pieces == Split(s, separator)
                  keys == [i \in 1..Len(pieces) |-> ParseInt(Strip(pieces[i]))]
              IN IF \E i \in 1..Len(keys) : ~keys[i].ok THEN ListResult(<<>>)
                 ELSE IF \E i \in 1..Len(keys) :
                            Len(MatchingValues(lookup_sheet, keys[i].val)) = 0
                 THEN ListResult(<<>>)
                 ELSE LET rs == [i \in 1..Len(keys) |->
                                   check_iri(FirstValue(lookup_sheet, keys[i].val),
                                             <<>>)]
                      IN IF \E i \in 1..Len(rs) : rs[i] = Raise
                         THEN ListResult(<<>>)
                         ELSE ListResult(rs)
    ELSE ListResult(<<>>)

(***************************************************************************)
(* spreadsheet_io: return_none_for_nan, return_float, return_string,       *)
(* get_cell, get_index2, get_cells.  A worksheet is a record               *)
(* [columns, rows]: the set of its column headers and the list of its      *)
(* rows, each a function of the headers; row i of the code (from 0) is     *)
(* rows[i + 1].  The 'index' column of a reference sheet holds integers.   *)
(***************************************************************************)
\* None passed where a worksheet is expected
NoWorksheet == [columns |-> {"<None>"}, rows |-> <<>>]

\* a value that a call returns
Value(v) == [kind |-> "value", val |-> v]

\* return_none_for_nan
return_none_for_nan(input_value) ==
    IF /\ Truthy(input_value)
       /\ input_value # NaN
       /\ PyStr(input_value) \notin {<<"N","a","N">>, <<"n","a","n">>}
    THEN input_value
    ELSE PyNone

\* float(s): [ok, val], ok FALSE where float raises ValueError.  Of a string
\* without '.', exponent, 'inf' or 'nan', float accepts what int accepts.
ParseFloat(s) ==
    IF IsStr(s) THEN ParseInt(s)
    ELSE [ok |-> TRUE, val |-> DigitsValue(Tail(s))]

\* return_float: [ok, val], ok FALSE where it returns None
return_float(input_number) ==
    IF Truthy(input_number) /\ input_number # NaN
    THEN ParseFloat(input_number)
    ELSE [ok |-> FALSE, val |-> 0]

\* return_string: '"://" in input_string' raises TypeError for a truthy
\* input that is no string
return_string(input_string, replace, replace_with) ==
    IF ~Truthy(input_string) THEN Str(<<>>)
    ELSE IF ~IsStr(input_string) THEN Raise
    ELSE LET wrapped ==
                 IF /\ Contains(input_string, <<":","/","/">>)
                    /\ ~StartsWith(input_string, <<"<">>)
                 THEN <<"<">> \o input_string \o <<">">>
                 ELSE input_string
             output_string == Strip(wrapped)
         IN IF replace = <<>> THEN Str(output_string)
            ELSE IF Len(replace) # Len(replace_with) THEN Raise
            ELSE Str(ReplaceEach(output_string, replace, replace_with))

\* get_cell
get_cell(worksheet, column_label, index, exclude, no_nan) ==
    IF column_label \notin worksheet.columns THEN Value(PyNone)
    ELSE IF index < Len(worksheet.rows)
    THEN LET cell == IF no_nan
                     THEN return_none_for_nan(
                              worksheet.rows[index + 1][column_label])
                     ELSE worksheet.rows[index + 1][column_label]
         IN IF exclude # {} /\ cell \in exclude THEN Value(PyNone)
            ELSE Value(cell)
    ELSE Raise

\* the rows of worksheet2 whose 'index' is k, from 0
IndexMatches(worksheet2, k) ==
    {i \in 0..(Len(worksheet2.rows) - 1) : worksheet2.rows[i + 1]["index"] = k}

\* get_index2: [found, pos], found FALSE where it returns None; it raises
\* where get_cell does
get_index2(worksheet1, column1_label, index1, worksheet2) ==
    Bind(get_cell(worksheet1, column1_label, index1, {}, TRUE).val,
         LAMBDA cell :
    Bind(return_float(cell), LAMBDA index1to2 :
    Bind(IndexMatches(worksheet2, index1to2.val), LAMBDA matches :
        IF /\ Truthy(cell)
           /\ index1to2.ok
           /\ index1to2.val # 0
           /\ matches # {}
        THEN [found |-> TRUE,
              pos |-> CHOOSE i \in matches : \A j \in matches : i <= j]
        ELSE [found |-> FALSE, pos |-> 0])))

\* get_cells.  Every column is read at the same row index, so get_cell
\* raises for all of them or for none; 'if index2:' is false for row 0.
get_cells(worksheet, index, worksheet2, exclude, no_nan) ==
    IF index >= Len(worksheet.rows) THEN Raise
    ELSE
    Bind(IF worksheet2 = NoWorksheet THEN [found |-> FALSE, pos |-> 0]
         ELSE get_index2(worksheet, "DefinitionReference_index", index,
                         worksheet2),
         LAMBDA index2 :
    LET cell(label) == get_cell(worksheet, label, index, exclude, TRUE).val
        resolved == index2.found /\ index2.pos # 0
    IN Value(<<cell("equivalentClass"), cell("subClassOf"),
               cell("propertyDomain"), cell("propertyRange"),
               cell("Definition"),
               IF resolved
               THEN get_cell(worksheet2, "ReferenceName", index2.pos,
                             exclude, TRUE).val
               ELSE PyNone,
               IF resolved
               THEN get_cell(worksheet2, "ReferenceLink", index2.pos,
                             exclude, TRUE).val
               ELSE PyNone>>))

(***************************************************************************)
(* write_rdf.build_rdf and owl_or_skos.                                    *)
(***************************************************************************)
\* the texts of a list of results joined, or the exception one of them
\* raised.  The list is bound by a set constructor, so that it is evaluated
\* once.
Concat(results) ==
    LET joined(rs) ==
            IF \E i \in 1..Len(rs) : rs[i] = Raise THEN Raise
            ELSE Str(Join([i \in 1..Len(rs) |-> rs[i].val], <<>>))
    IN CHOOSE r \in {joined(rs) : rs \in {results}} : TRUE

\* write_rdf.conceptClass
conceptClass(conceptualisation, relation) ==
    IF conceptualisation = <<"O","W","L">>
    THEN (IF relation = "equivalence" THEN <<"o","w","l",":","e","q","u","i","v","a","l","e","n","t","C","l",
              "a","s","s">>
          ELSE <<"r","d","f","s",":","s","u","b","C","l","a","s","s","O","f">>)
    ELSE (IF relation = "equivalence" THEN <<"s","k","o","s",":","e","x","a","c","t","M","a","t","c","h">>
          ELSE <<"s","k","o","s",":","b","r","o","a","d","M","a","t","c","h">>)

\* write_rdf.owl_or_skos: '":" in label_safe' raises TypeError for None
owl_or_skos(label_safe, pfx) ==
    IF ~IsStr(label_safe) THEN Raise
    ELSE IF /\ Contains(label_safe, <<":">>)
            /\ ~Contains(label_safe, <<"/","/">>)
            /\ ~StartsWith(label_safe, <<":">>)
            /\ Has(pfx, SplitHead(label_safe, ":"))
    THEN Str(pfx.val[SplitHead(label_safe, ":")])
    ELSE Str(<<"O","W","L">>)

\* the relation build_rdf writes between the class and another one
Relation(l_con, r_con, relation) ==
    IF l_con = r_con THEN conceptClass(l_con.val, relation)
    ELSE <<"o","w","l",":","A","n","n","o","t","a","t","i","o","n","P","r",
           "o","p","e","r","t","y">>

\* write_rdf.build_rdf
build_rdf(uri_stem, rdftype, label, comment, index, worksheet, worksheet2, equivalent_class_uri, subclassof_uri, property_domain, property_range, exclude, conceptualizations) ==
    IF worksheet = NoWorksheet THEN Raise
    ELSE
    Bind(get_cells(worksheet, index, worksheet2, exclude, TRUE), LAMBDA got :
    IF got = Raise THEN Raise
    ELSE
    LET cells == got.val
        definition_ref == cells[6]
        definition_uri == cells[7]
        comment_r == IF comment \in exclude THEN cells[5] ELSE comment
        equivalent_r == IF equivalent_class_uri \in exclude THEN cells[1]
                        ELSE equivalent_class_uri
        subclassof_r == IF subclassof_uri \in exclude THEN cells[2]
                        ELSE subclassof_uri
        domain_r == IF property_domain \in exclude THEN cells[3]
                    ELSE property_domain
        range_r == IF property_range \in exclude THEN cells[4]
                   ELSE property_range
        l_con == owl_or_skos(uri_stem, conceptualizations)
        first == <<"\n","#","#","#"," ">> \o PyStr(label) \o <<"\n">>
                 \o (IF Contains(uri_stem, <<":">>) THEN <<>> ELSE <<":">>)
                 \o uri_stem \o <<" ","r","d","f",":","t","y","p","e"," ">> \o PyStr(rdftype) \o <<" ">>
        label_clause ==
            IF label \in exclude THEN <<>>
            ELSE <<";","\n"," "," "," "," ","r","d","f","s",":","l","a","b",
                   "e","l"," ","\"">> \o PyStr(label)
                     \o <<"\"","^","^","r","d","f","s",":","L","i","t","e",
                          "r","a","l"," ">>
        refstring ==
            IF definition_ref \in exclude THEN Str(<<>>)
            ELSE Concat(<<Str(<<" ","[","f","r","o","m",":"," ">>),
                          return_string(definition_ref, <<<<"\"">>>>,
                                        <<<<"'">>>>),
                          Str(<<"]">>)>>)
        comment_clause ==
            IF comment_r \in exclude THEN Str(<<>>)
            ELSE Concat(<<Str(<<";","\n"," "," "," "," ","r","d","f","s",":","c","o",
                      "m","m","e","n","t"," ","\"">>),
                          return_string(comment_r, <<<<"\"">>>>, <<<<"'">>>>),
                          refstring,
                          Str(<<"\"","^","^","r","d","f","s",":","L","i","t",
                                "e","r","a","l"," ">>)>>)
        defined_by_clause ==
            IF definition_uri \in exclude THEN Str(<<>>)
            ELSE Concat(<<Str(<<";","\n"," "," "," "," ","r","d","f","s",":","i","s",
                      "D","e","f","i","n","e","d","B","y"," ","\"">>),
                          return_string(definition_uri, <<>>, <<>>),
                          Str(<<"\"","^","^","r","d","f","s",":","L","i","t",
                                "e","r","a","l"," ">>)>>)
        equivalent_clause ==
            IF equivalent_r \in exclude THEN Str(<<>>)
            ELSE IF owl_or_skos(equivalent_r, conceptualizations) = Raise
            THEN Raise
            ELSE Concat(<<
                Str(<<";","\n"," "," "," "," "," "," "," "," ">>),
                Str(IF rdftype = <<"o","w","l",":","O","b","j","e","c","t","P","r","o",
                          "p","e","r","t","y">>
                    THEN <<"o","w","l",":","e","q","u","i","v","a","l","e",
                           "n","t","P","r","o","p","e","r","t","y">>
                    ELSE Relation(l_con,
                             owl_or_skos(equivalent_r, conceptualizations),
                             "equivalence")),
                Str(<<" ">>),
                return_string(equivalent_r, <<>>, <<>>),
                Str(<<" ">>)>>)
        subclassof_clause ==
            IF subclassof_r \in exclude THEN Str(<<>>)
            ELSE IF owl_or_skos(subclassof_r, conceptualizations) = Raise
            THEN Raise
            ELSE LET formatted ==
                         IF /\ ~StartsWith(subclassof_r, <<":">>)
                            /\ Contains(subclassof_r, <<"/","/">>)
                         THEN return_string(subclassof_r, <<>>, <<>>).val
                         ELSE subclassof_r
                 IN Concat(<<
                     Str(<<";","\n"," "," "," "," ">>),
                     Str(IF rdftype = <<"o","w","l",":","O","b","j","e","c","t","P",
                               "r","o","p","e","r","t","y">>
                         THEN <<"r","d","f","s",":","s","u","b","P","r","o",
                                "p","e","r","t","y","O","f">>
                         ELSE Relation(l_con,
                                  owl_or_skos(subclassof_r, conceptualizations),
                                  "subtype")),
                     Str(<<" ">>),
                     return_string(formatted, <<>>, <<>>),
                     Str(<<" ">>)>>)
        domain_clause ==
            IF domain_r \in exclude THEN Str(<<>>)
            ELSE Concat(<<Str(<<";","\n"," "," "," "," ","r","d","f","s",":","d","o",
                      "m","a","i","n"," ",":">>),
                          return_string(domain_r, <<>>, <<>>), Str(<<" ">>)>>)
        range_clause ==
            IF range_r \in exclude THEN Str(<<>>)
            ELSE Concat(<<Str(<<";","\n"," "," "," "," ","r","d","f","s",":","r","a",
                      "n","g","e"," ",":">>),
                          return_string(range_r, <<>>, <<>>), Str(<<" ">>)>>)
    IN IF ~IsStr(uri_stem) THEN Raise
       ELSE Concat(<<Str(first), Str(label_clause), comment_clause,
                     defined_by_clause, equivalent_clause, subclassof_clause,
                     domain_clause, range_clause, Str(<<".","\n">>)>>))

(***************************************************************************)
(* create_mhdbnb.gen_questions and nb_rdf.                                 *)
(***************************************************************************)
\* s.strip("?")
StripQuestionMarks(s) ==
    LET kept == {i \in 1..Len(s) : s[i] # "?"}
    IN IF kept = {} THEN <<>>
       ELSE SubSeq(s, CHOOSE i \in kept : \A j \in kept : i <= j,
                      CHOOSE i \in kept : \A j \in kept : i >= j)

\* 'x.strip() if x else None' of gen_questions raises AttributeError for a
\* truthy x that is no string
StripsOrNone(x) == ~Truthy(x) \/ IsStr(x)

\* create_mhdbnb.gen_questions: the list of questions, for a string nb and
\* p1, s1, dim_p1 that are strings or falsy; '' stands for None after the
\* strip
gen_questions(nb, p1, s1, dim_p1) ==
    LET n == Strip(nb)
        p == IF Truthy(p1) THEN Strip(p1) ELSE <<>>
        s == IF Truthy(s1) THEN StripQuestionMarks(Strip(s1)) ELSE <<>>
        d == IF Truthy(dim_p1) THEN Strip(dim_p1) ELSE <<>>
        sp == <<" ">>
        q == <<"?">>
    IN IF p # <<>>
       THEN <<p \o sp \o n \o q>>
            \o (IF s # <<>>
                THEN <<p \o sp \o n \o sp \o s \o q>>
                     \o (IF d # <<>>
                         THEN <<d \o sp \o p \o sp \o n \o sp \o s \o q>>
                         ELSE <<>>)
                ELSE IF d # <<>> THEN <<d \o sp \o p \o sp \o n \o q>>
                ELSE <<>>)
       ELSE IF s # <<>>
       THEN <<n \o sp \o s \o q>>
            \o (IF d # <<>> THEN <<d \o sp \o n \o sp \o s \o q>> ELSE <<>>)
       ELSE <<>>

\* create_mhdbnb.nb_rdf
nb_rdf(label, p1, s1, dim_p1) ==
    IF ~IsStr(label) \/ ~StripsOrNone(p1) \/ ~StripsOrNone(s1)
          \/ ~StripsOrNone(dim_p1)
    THEN Raise
    ELSE
    Bind(gen_questions(label, p1, s1, dim_p1), LAMBDA qs :
    LET each_q == [i \in 1..Len(qs) |->
            Concat(<<Str(<<"m","h","d","b","n","b",":">>), convert_string_to_label(qs[i]),
                     Str(<<" ","r","d","f",":","t","y","p","e"," ","s","c",
                           "h","e","m","a",":","Q","u","e","s","t","i","o",
                           "n"," ",";","\n","\t","r","d","f","s",":","l","a",
                           "b","e","l"," ","\"","\"","\"">>),
                     Str(qs[i]), Str(<<"\"","\"","\"","^","^","r","d","f","s",":","L",
                               "i","t","e","r","a","l"," ",".","\n","\n">>)>>)]
        qstring == [i \in 1..Len(qs) |->
            Concat(<<Str(<<" ",";","\n","\t","s","c","h","e","m","a",":","s","u",
                      "b","j","e","c","t","O","f"," ","m","h","d","b","n","b",
                      ":">>),
                     convert_string_to_label(qs[i])>>)]
    IN Concat(each_q
              \o <<Str(<<"m","h","d","b","n","b",":">>), convert_string_to_label(label),
                   Str(<<" ">>),
                   Str(<<"r","d","f","s",":","s","u","b","C","l","a","s","s",
                         "O","f"," ","h","e","a","l","t","h","-","l","i","f",
                         "e","s","c","i",":","M","e","d","i","c","a","l","S",
                         "i","g","n","O","r","S","y","m","p","t","o","m">>),
                   Str(<<" ",";","\n","\t","r","d","f","s",":","l","a","b",
                         "e","l"," ","\"","\"","\"">>),
                   Str(Replace(Replace(label, <<"\n">>, <<" ">>),
                               <<"\"">>, <<"\\", "\"">>)),
                   Str(<<"\"","\"","\"","^","^","r","d","f","s",":","L","i",
                         "t","e","r","a","l">>)>>
              \o qstring
              \o <<Str(<<" ",";","\n","\t","r","d","f","s",":","c","o","m","m",
                        "e","n","t"," ","\"","\\","\"","n","e","u","t","r",
                        "a","l"," ","b","e","h","a","v","i","o","u","r","\\",
                        "\"","\"","^","^","r","d","f","s",":","L","i","t","e",
                        "r","a","l">>),
                   Str(<<" ",".","\n","\n">>)>>))

(***************************************************************************)
(* create_mhdbnb.gather_Rs and rdf_nb.  A row of Neutral_Behaviors is a    *)
(* record [index, nb, repetition_index, reference_index, prefix, suffix,   *)
(* dimensional_prefix, symptom]: nb, prefix, suffix and dimensional_prefix *)
(* are the lists of the three columns "neutral behaviour 1" .. 3,          *)
(* "prefix 1" .. 3 and so on.  The prefix and suffix sheets are lists of   *)
(* rows (index, text).  Rs and xls_mhdb are names the two functions read   *)
(* from the module namespace, where only main binds them, as locals:       *)
(* `bound` is the set of those names that the caller has bound at module   *)
(* level.  `depth` counts the frames in use: a call beyond MaxDepth is the *)
(* RecursionError of the interpreter.                                      *)
(***************************************************************************)
Rs == {<<"R">>, <<"R", "\n">>, <<>>, <<"\n">>}
NameError == [kind |-> "raise", val |-> <<"NameError">>]
RecursionError == [kind |-> "raise", val |-> <<"RecursionError">>]

\* Neutral_Behaviors.loc[Neutral_Behaviors["index"] == k]
RowsOf(Neutral_Behaviors, k) ==
    SelectSeq(Neutral_Behaviors, LAMBDA row : row.index = k)

\* list(eval(rb)) of a string: [ok, val].  'a,b' and 'a,' are tuples; a
\* single number is an int, of which list() raises TypeError, and any other
\* text of the input sets raises in eval.
EvalIndices(rb) ==
    Bind(Split(rb, <<",">>), LAMBDA pieces :
    Bind(IF Strip(pieces[Len(pieces)]) = <<>>
         THEN SubSeq(pieces, 1, Len(pieces) - 1)
         ELSE pieces,
         LAMBDA items :
        IF /\ Len(pieces) >= 2
           /\ items # <<>>
           /\ \A i \in 1..Len(items) : ParseInt(items[i]).ok
        THEN [ok |-> TRUE,
              val |-> [i \in 1..Len(items) |-> ParseInt(items[i]).val]]
        ELSE [ok |-> FALSE, val |-> <<>>]))

\* create_mhdbnb.gather_Rs: Value(the set of indices), which the code
\* returns as a list in the iteration order of the set, or the exception
RECURSIVE gather_Rs(_, _, _, _)
gather_Rs(rb, Neutral_Behaviors, bound, depth) ==
    IF depth > MaxDepth THEN RecursionError
    ELSE IF IsFloat(rb) THEN Value({})
    ELSE IF ~(IsStr(rb) \/ rb[1] = "<int>") THEN Raise
    ELSE
    Bind(IF IsStr(rb) THEN EvalIndices(rb)
         ELSE [ok |-> TRUE, val |-> <<DigitsValue(Tail(rb))>>],
         LAMBDA evaluated :
    IF ~evaluated.ok THEN Raise
    ELSE
    LET rep_indicies == evaluated.val
        \* one pass of the loop: the indices it adds, or the exception
        pass(r) ==
            Bind(RowsOf(Neutral_Behaviors, r), LAMBDA rows :
                IF rows = <<>> THEN Raise
                ELSE IF "Rs" \notin bound THEN NameError
                ELSE IF rows[1].nb[1] \in Rs
                THEN gather_Rs(rows[1].repetition_index, Neutral_Behaviors,
                               bound, depth + 1)
                ELSE Value({}))
    IN Bind([i \in 1..Len(rep_indicies) |-> pass(rep_indicies[i])],
            LAMBDA passes :
        LET raising == {i \in 1..Len(passes) : passes[i].kind = "raise"}
        IN IF raising # {}
           THEN passes[CHOOSE i \in raising : \A j \in raising : i <= j]
           ELSE Value({rep_indicies[i] : i \in 1..Len(rep_indicies)}
                      \cup UNION {passes[i].val : i \in 1..Len(passes)})))

\* int(x): [ok, val], ok FALSE where int raises
IntOf(x) ==
    IF x \in {PyNone, NaN} THEN [ok |-> FALSE, val |-> 0]
    ELSE IF IsStr(x) THEN ParseInt(x)
    ELSE [ok |-> TRUE, val |-> DigitsValue(Tail(x))]

\* table.loc[table["index"] == int(cell)][column].values[0] inside
\* try/except: None where anything raises
TextOfIndex(table, cell) ==
    Bind(IntOf(cell), LAMBDA k :
        IF k.ok /\ MatchingValues(table, k.val) # <<>>
        THEN FirstValue(table, k.val)
        ELSE PyNone)

\* the first exception of two results, or their texts joined
Then(first, second) ==
    IF first.kind = "raise" THEN first
    ELSE IF second.kind = "raise" THEN second
    ELSE Str(first.val \o second.val)

\* the labels of a row: the first one, and the second and third where they
\* are strings that are not in Rs
LabelsOf(row) ==
    <<row.nb[1]>> \o SelectSeq(<<row.nb[2], row.nb[3]>>,
                              LAMBDA nbl : IsStr(nbl) /\ nbl \notin Rs)

\* rdf_nb from 'if label not in Rs:' on, for a label that is not in Rs
rdf_nb_statements(index, Neutral_Behaviors, NBP, DimP, NBS, References, symptom_index) ==
    Bind(RowsOf(Neutral_Behaviors, index)[1], LAMBDA row :
    Bind(LabelsOf(row), LAMBDA labels :
    Bind(rdf_nb_reference(row.reference_index, References),
         LAMBDA reference :
    Bind([i \in 1..Len(labels) |->
             Concat(<<Str(<<"r","d","f","s",":","s","u","b","C","l","a","s",
                           "s","O","f"," ","m","h","d","b","n","b",":">>),
                      convert_string_to_label(labels[i])>>)],
         LAMBDA subclasses :
    LET nb_k(k) ==
            nb_rdf(labels[k], TextOfIndex(NBP, row.prefix[k]),
                   TextOfIndex(NBS, row.suffix[k]),
                   TextOfIndex(DimP, row.dimensional_prefix[k]))
        symptom ==
            Bind(RowsOf(Neutral_Behaviors, symptom_index), LAMBDA rows :
                IF rows = <<>> THEN Raise
                ELSE convert_string_to_label(rows[1].symptom))
        is_raise(r) == r.kind = "raise"
    IN Then(nb_k(1),
         Then(IF Len(labels) > 1
              THEN Then(nb_k(2),
                        IF Len(labels) > 3 THEN nb_k(3) ELSE Str(<<>>))
              ELSE Str(<<>>),
         Then(Concat(<<Str(<<"m","h","d","b",":">>), symptom, Str(<<" ">>)>>),
           IF SelectSeq(subclasses, is_raise) # <<>>
           THEN SelectSeq(subclasses, is_raise)[1]
           ELSE Str(Join([i \in 1..Len(labels) |-> subclasses[i].val],
                         <<" ",";","\n">>)
                    \o (IF IsStr(reference)
                        THEN <<" ",";","\n","\t","d","c","t","e","r","m","s",
                               ":","s","o","u","r","c","e"," ">> \o reference
                        ELSE <<>>)
                    \o <<" ",".","\n","\n">>))))))))

\* create_mhdbnb.rdf_nb: the set of the results the call can have, one for
\* each order in which the list of gather_Rs can come.  symptom_index 0
\* stands for None as well: both are false in 'if not symptom_index'.
RECURSIVE rdf_nb(_, _, _, _, _, _, _, _, _, _)
RECURSIVE rdf_nb_each(_, _, _, _, _, _, _, _, _, _)
rdf_nb_each(order, Neutral_Behaviors, mhdb, NBP, DimP, NBS, References, symptom_index, bound, depth) ==
    IF order = <<>> THEN {Str(<<>>)}
    ELSE {Then(first, rest) :
            first \in rdf_nb(Head(order), Neutral_Behaviors, mhdb, NBP, DimP,
                             NBS, References, symptom_index, bound, depth),
            rest \in rdf_nb_each(Tail(order), Neutral_Behaviors, mhdb, NBP,
                                 DimP, NBS, References, symptom_index, bound,
                                 depth)}

rdf_nb(index, Neutral_Behaviors, mhdb, NBP, DimP, NBS, References, symptom_index, bound, depth) ==
    IF depth > MaxDepth THEN {RecursionError}
    ELSE
    Bind(RowsOf(Neutral_Behaviors, index), LAMBDA rows :
    IF rows = <<>> THEN {Raise}
    ELSE IF (IsStr(rows[1].nb[2]) \/ IsStr(rows[1].nb[3]))
            /\ "Rs" \notin bound
    THEN {NameError}
    ELSE
    Bind(gather_Rs(rows[1].repetition_index, Neutral_Behaviors, bound,
                   depth + 1),
         LAMBDA gathered :
    IF gathered.kind = "raise" THEN {gathered}
    ELSE IF gathered.val # {} /\ "xls_mhdb" \notin bound THEN {NameError}
    ELSE IF gathered.val = {} /\ "Rs" \notin bound THEN {NameError}
    ELSE
    Bind(IF rows[1].nb[1] \in Rs THEN Str(<<>>)
         ELSE rdf_nb_statements(index, Neutral_Behaviors, NBP, DimP, NBS,
                  References,
                  IF symptom_index = 0 THEN index ELSE symptom_index),
         LAMBDA own :
        {Then(repeated, own) :
            repeated \in UNION {
                rdf_nb_each(order, Neutral_Behaviors, mhdb, NBP, DimP, NBS,
                            References, index, bound, depth + 1) :
                order \in Perms(gathered.val)}})))

(***************************************************************************)
(* The document header: write_ttl.write_header, write_header_prefixes,     *)
(* and write_rdf.print_header, build_prefix, build_import.                 *)
(***************************************************************************)
\* "@prefix {1}: <{2}> .\n" for each prefix, then "@base <{1}> .\n" with the
\* IRI of the first prefix without its last character
write_header_prefixes_base_unsliced(pfx) ==
    Join([i \in 1..Len(pfx) |->
             <<"@","p","r","e","f","i","x"," ">> \o PyStr(pfx[i][1]) \o <<":"," ","<">>
                 \o PyStr(pfx[i][2]) \o <<">"," ",".","\n">>], <<>>)
        \o <<"@","b","a","s","e"," ","<">> \o pfx[1][2] \o <<">"," ",".","\n">>

write_header_prefixes(pfx) ==
    Join([i \in 1..Len(pfx) |->
             <<"@","p","r","e","f","i","x"," ">> \o PyStr(pfx[i][1]) \o <<":"," ","<">>
                 \o PyStr(pfx[i][2]) \o <<">"," ",".","\n">>], <<>>)
        \o <<"@","b","a","s","e"," ","<">> \o SubSeq(pfx[1][2], 1, Len(pfx[1][2]) - 1)
        \o <<">"," ",".","\n">>

\* write_ttl.write_header
write_header(base_uri, version, label, comment, pfx) ==
    write_header_prefixes(
        << <<(<<>>), PyStr(base_uri) \o <<"#">> >> >> \o pfx)
    \o <<"<">> \o PyStr(base_uri) \o <<">"," ","r","d","f",":","t","y","p","e"," ","o","w","l",":","O",
              "n","t","o","l","o","g","y"," ",";","\n">>
    \o <<" "," "," "," ","o","w","l",":","v","e","r","s","i","o","n","I","R",
         "I"," ","<">> \o PyStr(base_uri) \o <<"/">>
    \o PyStr(version) \o <<">"," ",";","\n">>
    \o <<" "," "," "," ","o","w","l",":","v","e","r","s","i","o","n","I","n",
         "f","o"," ","\"">> \o PyStr(version)
    \o <<"\"","^","^","r","d","f","s",":","L","i","t","e","r","a","l"," ",";",
         "\n">>
    \o <<" "," "," "," ","r","d","f","s",":","l","a","b","e","l"," ","\"">> \o PyStr(label) \o <<"\"","^","^","r","d","f","s",":","L","i","t","e","r","a","l",
              " ",";","\n">>
    \o <<" "," "," "," ","r","d","f","s",":","c","o","m","m","e","n","t"," ",
         "\"","\"","\"">> \o PyStr(comment) \o <<"\"","\"","\"","@","e","n"," ",".","\n","\n">>

\* write_rdf.build_prefix
build_prefix(prefix, uri) ==
    <<"@","p","r","e","f","i","x"," ">> \o PyStr(prefix) \o <<":"," ","<">> \o PyStr(uri) \o <<">"," ",".">>

\* write_rdf.build_import: None for an absent uri
build_import(uri) ==
    IF Truthy(uri) THEN <<"o","w","l",":","i","m","p","o","r","t","s"," ","<">> \o PyStr(uri) \o <<">"," ">>
    ELSE PyNone

\* the prefixes print_header always declares
FixedPrefixLines ==
    <<"@","p","r","e","f","i","x"," ","o","w","l",":"," ","<","h","t","t","p",
      ":","/","/","w","w","w",".","w","3",".","o","r","g","/","2","0","0","2",
      "/","0","7","/","o","w","l","#",">"," ",".","\n">>
    \o <<"@","p","r","e","f","i","x"," ","r","d","f",":"," ","<","h","t","t",
         "p",":","/","/","w","w","w",".","w","3",".","o","r","g","/","1","9",
         "9","9","/","0","2","/","2","2","-","r","d","f","-","s","y","n","t",
         "a","x","-","n","s","#",">"," ",".","\n">>
    \o <<"@","p","r","e","f","i","x"," ","x","m","l",":"," ","<","h","t","t",
         "p",":","/","/","w","w","w",".","w","3",".","o","r","g","/","X","M",
         "L","/","1","9","9","8","/","n","a","m","e","s","p","a","c","e",">",
         " ",".","\n">>
    \o <<"@","p","r","e","f","i","x"," ","x","s","d",":"," ","<","h","t","t",
         "p",":","/","/","w","w","w",".","w","3",".","o","r","g","/","2","0",
         "0","1","/","X","M","L","S","c","h","e","m","a","#",">"," ",".",
         "\n">>
    \o <<"@","p","r","e","f","i","x"," ","r","d","f","s",":"," ","<","h","t",
         "t","p",":","/","/","w","w","w",".","w","3",".","o","r","g","/","2",
         "0","0","0","/","0","1","/","r","d","f","-","s","c","h","e","m","a",
         "#",">"," ",".","\n">>
    \o <<"@","p","r","e","f","i","x"," ","s","k","o","s",":"," ","<","h","t",
         "t","p",":","/","/","w","w","w",".","w","3",".","o","r","g","/","2",
         "0","0","4","/","0","2","/","s","k","o","s","/","c","o","r","e","#",
         ">"," ",".","\n">>
    \o <<"@","p","r","e","f","i","x"," ","d","c","t","e","r","m","s",":"," ",
         "<","h","t","t","p",":","/","/","d","u","b","l","i","n","c","o","r",
         "e",".","o","r","g","/","d","o","c","u","m","e","n","t","s","/","2",
         "0","1","2","/","0","6","/","1","4","/","d","c","m","i","-","t","e",
         "r","m","s","/",">"," ",".","\n">>

\* None passed where a list of strings is expected
NoList == << <<"<None>">>, <<"<list>">> >>

\* write_rdf.print_header; pfx and imports are lists, or NoList
print_header(base_uri, version, label, comment, pfx, imports) ==
    LET prefix == IF pfx # NoList /\ pfx # <<>> THEN Join(pfx, <<"\n">>)
                  ELSE <<>>
        owl_import ==
            IF imports # NoList /\ imports # <<>>
            THEN <<";","\n">> \o Join(SelectSeq(imports, Truthy), <<";","\n">>)
                    \o <<" ">>
            ELSE <<>>
    IN <<"\n","@","p","r","e","f","i","x"," ",":"," ","<">> \o PyStr(base_uri) \o <<"#",">"," ",".","\n">>
       \o FixedPrefixLines
       \o prefix \o <<"\n">>
       \o <<"@","b","a","s","e"," ","<">> \o PyStr(base_uri) \o <<">"," ",".","\n","\n">>
       \o <<"<">> \o PyStr(base_uri) \o <<">"," ","r","d","f",":","t","y","p","e"," ","o","w","l",":",
                 "O","n","t","o","l","o","g","y"," ",";","\n">>
       \o <<" "," "," "," ","o","w","l",":","v","e","r","s","i","o","n","I",
            "R","I"," ","<">> \o PyStr(base_uri) \o <<"/">>
       \o PyStr(version) \o <<">"," ",";","\n">>
       \o <<" "," "," "," ","o","w","l",":","v","e","r","s","i","o","n","I",
            "n","f","o"," ","\"">> \o PyStr(version)
       \o <<"\"","^","^","r","d","f","s",":","L","i","t","e","r","a","l"," ",
            ";","\n">>
       \o <<" "," "," "," ","r","d","f","s",":","l","a","b","e","l"," ","\"">> \o PyStr(label) \o <<"\"","^","^","r","d","f","s",":","L","i","t","e","r","a","l",
                 " ",";","\n">>
       \o <<" "," "," "," ","r","d","f","s",":","c","o","m","m","e","n","t",
            " ","\"","\"","\"">> \o PyStr(comment)
       \o <<"\"","\"","\"","^","^","r","d","f","s",":","L","i","t","e","r",
            "a","l"," ">> \o owl_import \o <<".","\n","\n">>

(***************************************************************************)
(* Inputs.                                                                 *)
(***************************************************************************)
DisorderNames == {<<"O","C","D">>}
ProjectNames == {<<"A","p","p">>}
Dois == {<<"1","0",".","1","/","a">>}
Titles == {<<>>, <<"T">>}
Subjects == {gendered_iri(Male), doi_local_iri(ProjectDoi),
             check_iri(<<"O","C","D">>, <<>>).val}
Predicates == {rdfs_label, rdfs_subClassOf}
Objects == {<<":","x">>, language_string(<<"y"," ","z">>)}
PredObjPairs == {<<p, o>> : p \in Predicates, o \in Objects}
CommonStatements == {<<>>, << <<rdfs_label, <<":","x">> >> >>}
IriAlphabet == {"a", ":", "/", " "}
PrefixTables == {<<>>, << <<(<<"a">>), (<<"a",":","/","/","a","/">>)>> >>}

LabelAlphabet == {"a", " ", "-", "_", ".", "(", "é"}
NonStrings == {PyNone, NaN, PyInt(<<"1">>)}

CellAlphabet == {"0", "2", "3", "/", " ", "x"}
Separators == {<<"/">>, <<",">>}
LookupSheets ==
    { << <<0, <<":","d">> >>, <<1, <<"g">> >>, <<2, <<":","s">> >> >>,
      << <<2, <<":","s">> >>, <<0, NaN>>, <<2, <<"g">> >> >> }

\* the Reference sheet and the gender sheet
ReferenceSheet ==
    << [index |-> 8, ReferenceName |-> <<"D","S","M","-","5">>, ReferenceLink |-> NaN],
       [index |-> 84, ReferenceName |-> <<"U","S">>,
        ReferenceLink |-> <<"h","t","t","p",":","/","/","a","/","b">>] >>
GenderSheet == << <<1, <<"f","e","m","a","l","e">>>> >>

\* a row of Sheet1
BehaviorRow(symptom, sign_or_symptom_index, reference_index, gender_index) ==
    [symptom |-> symptom, sign_or_symptom_index |-> sign_or_symptom_index,
     reference_index |-> reference_index, gender_index |-> gender_index]

\* the rows of Sheet1: reference 9 and gender 0 are in no sheet
Despair == <<"d","e","s","p","a","i","r">>
NoJoy == <<"n","o"," ","j","o","y">>
BehaviorRows ==
    { BehaviorRow(Despair, 2, 84, 0), BehaviorRow(Despair, 2, 8, 0),
      BehaviorRow(Despair, 1, 9, 1), BehaviorRow(NoJoy, 3, 84, 1),
      BehaviorRow(NoJoy, 1, 8, 0), BehaviorRow(NoJoy, 2, 9, 0) }

\* the rows of MHealthPeople: a person with or without URL, label and site
PeopleRow(URL, Labs, Site) ==
    [URL |-> URL, Labs |-> Labs, Site |-> Site, Affiliate |-> NaN]

PeopleRows ==
    { PeopleRow(<<"h","t","t","p",":","/","/","a">>, <<"L","a","b">>, <<"N","Y">>),
      PeopleRow(<<"h","t","t","p",":","/","/","a">>, NaN, NaN),
      PeopleRow(NaN, <<"L","a","b">>, NaN),
      PeopleRow(NaN, NaN, <<"N","Y">>),
      PeopleRow(NaN, NaN, NaN) }

RECURSIVE SeqsUpTo(_, _)
SeqsUpTo(S, n) ==
    IF n = 0 THEN {<<>>}
    ELSE SeqsUpTo(S, n - 1) \cup
         {Append(q, x) : q \in {r \in SeqsUpTo(S, n - 1) : Len(r) = n - 1}, x \in S}

\* the arguments of write_header and print_header
BaseUris == {<<"h","t","t","p",":","/","/","a">>, <<"b">>}
Versions == {<<"1">>}
HeaderLabels == {<<"L">>, <<"q","\"">>}
HeaderComments == {<<"c">>, <<"c","\"">>, <<>>, PyNone}
PrefixPairs ==
    { <<<<"r","d","f">>, <<"h","t","t","p",":","/","/","r","#">>>>, <<<<"x">>, <<"h","t","t","p",":","/","/","x","/">>>> }
ImportLists ==
    {NoList, <<>>, <<build_import(PyNone)>>, <<build_import(<<"h","t","t","p",":","/","/","i">>)>>,
     <<build_import(PyNone), build_import(<<"h","t","t","p",":","/","/","i">>)>>}

WriteHeaderCalls ==
    {[op |-> "write_header",
      args |-> [base_uri |-> b, version |-> v, label |-> l, comment |-> c,
                prefixes |-> p]] :
        b \in BaseUris, v \in Versions, l \in HeaderLabels,
        c \in HeaderComments, p \in SeqsUpTo(PrefixPairs, MaxPrefixes)}

PrintHeaderCalls ==
    {[op |-> "print_header",
      args |-> [base_uri |-> b, version |-> v, label |-> l, comment |-> c,
                prefixes |-> [i \in 1..Len(p) |-> build_prefix(p[i][1], p[i][2])],
                imports |-> m]] :
        b \in BaseUris, v \in Versions, l \in HeaderLabels,
        c \in HeaderComments, p \in SeqsUpTo(PrefixPairs, MaxPrefixes),
        m \in ImportLists}

\* worksheets with the columns Definition and DefinitionReference_index,
\* and reference sheets
DefinitionRow(definition, reference_index) ==
    [Definition |-> definition, DefinitionReference_index |-> reference_index]
DefinitionRows ==
    {DefinitionRow(d, i) :
        d \in {NaN, <<"d","\"">>},
        i \in {PyInt(<<"0">>), PyInt(<<"8">>), PyFloat(<<"8">>), PyInt(<<"3">>),
               <<"8">>, <<"x">>, NaN}}
Worksheets ==
    {[columns |-> {"Definition", "DefinitionReference_index"}, rows |-> r] :
        r \in SeqsUpTo(DefinitionRows, MaxRows) \ {<<>>}}
ReferenceRecord(index, name, link) ==
    [index |-> index, ReferenceName |-> name, ReferenceLink |-> link]
ReferenceColumns == {"index", "ReferenceName", "ReferenceLink"}
ReferenceSheets ==
    {NoWorksheet,
     [columns |-> ReferenceColumns,
      rows |-> <<ReferenceRecord(8, <<"D","\"","5">>, NaN),
                 ReferenceRecord(0, <<"Z">>, <<"h","t","t","p",":","/","/","z">>),
                 ReferenceRecord(8, <<"E">>, <<"h","t","t","p",":","/","/","e">>)>>],
     [columns |-> ReferenceColumns,
      rows |-> <<ReferenceRecord(0, <<"Z">>, <<"h","t","t","p",":","/","/","z">>),
                 ReferenceRecord(8, <<"D","\"","5">>, NaN)>>]}
\* the exclusion list of the callers, and the default
Excludes == {{}, {<<>>, <<"n","a","n">>, <<"N","o","n","e">>, PyNone}}

GetCellsCalls ==
    {[op |-> "get_cells",
      args |-> [worksheet |-> w, index |-> i, worksheet2 |-> w2,
                exclude |-> x]] :
        w \in Worksheets, i \in 0..(MaxRows - 1), w2 \in ReferenceSheets,
        x \in Excludes}

\* the arguments of build_rdf
Conceptualizations == {EmptyDict, Put(EmptyDict, <<"s">>, <<"S","K","O","S">>)}
BuildRdfWorksheets ==
    {NoWorksheet} \cup
    {[columns |-> {"Definition", "DefinitionReference_index"},
      rows |-> <<DefinitionRow(d, i)>>] :
        d \in {NaN, <<"d","\"">>}, i \in {PyInt(<<"8">>), NaN}}
BuildRdfCalls ==
    {[op |-> "build_rdf",
      args |-> [uri_stem |-> u, rdf_type |-> t, label |-> l, comment |-> c,
                index |-> 0, worksheet |-> w, worksheet2 |-> w2,
                equivalent_class_uri |-> e, subclassof_uri |-> s,
                property_domain |-> p, property_range |-> p,
                exclude |-> x, conceptualizations |-> k]] :
        u \in {<<"a">>, <<"s",":","a">>},
        t \in {<<"o","w","l",":","C","l","a","s","s">>, <<"o","w","l",":","O","b","j","e","c","t","P","r","o","p","e",
                  "r","t","y">>},
        l \in HeaderLabels, c \in {PyNone, <<"c","\"">>},
        w \in BuildRdfWorksheets,
        w2 \in ReferenceSheets \ {NoWorksheet},
        e \in {PyNone, <<"s",":","b">>}, s \in {PyNone, <<"h","t","t","p",":","/","/","x","/","/","y">>},
        p \in {PyNone, <<"P">>}, x \in Excludes, k \in Conceptualizations}

\* the arguments of nb_rdf
NbRdfCalls ==
    {[op |-> "nb_rdf",
      args |-> [label |-> l, p1 |-> p, s1 |-> s, dim_p1 |-> d]] :
        l \in {<<"a">>, <<"a","\"","b">>, <<"a","\n">>, <<>>, NaN},
        p \in {PyNone, <<"P"," ">>, NaN},
        s \in {PyNone, <<"s","?">>, <<"\"","s">>},
        d \in {PyNone, <<"H">>}}

\* the arguments of write_about_statement
AboutCalls ==
    {[op |-> "write_about_statement",
      args |-> [subject |-> s, predicate |-> p, object |-> o,
                predicates |-> e]] :
        s \in Subjects, p \in Predicates, o \in Objects,
        e \in SeqsUpTo(PredObjPairs, MaxPairs)}

\* the sheets given to gather_Rs and rdf_nb
NbRow(index, nb, repetition_index, cells, symptom) ==
    [index |-> index, nb |-> nb, repetition_index |-> repetition_index,
     reference_index |-> 84, prefix |-> cells, suffix |-> cells,
     dimensional_prefix |-> <<NaN, NaN, NaN>>, symptom |-> symptom]
One == PyInt(<<"1">>)
\* tables of one row with one, two or three behaviour labels
LabelTables ==
    {<<NbRow(1, nb, NaN, cells, symptom)>> :
        nb \in {<<<<"a">>, NaN, NaN>>, <<<<"a">>, <<"b"," ","c">>, NaN>>,
                <<<<"a">>, <<"b"," ","c">>, <<"d">>>>, <<<<"a">>, NaN, <<"d">>>>,
                <<<<"a">>, <<"R">>, <<"d">>>>, <<NaN, <<"b"," ","c">>, NaN>>},
        cells \in {<<NaN, NaN, NaN>>, <<One, One, One>>,
                   <<PyFloat(<<"1">>), <<"1">>, PyInt(<<"7">>)>>},
        symptom \in {<<"s"," ","t">>, NaN}}
\* rows 2 and 3 repeat the behaviours of the rows they point at; the column
\* repetition_index holds a text as well, so its numbers arrive as ints
AliasTable ==
    <<NbRow(1, <<<<"a">>, NaN, NaN>>, NaN, <<One, NaN, NaN>>, <<"s">>),
      NbRow(2, <<<<"R">>, NaN, NaN>>, One, <<NaN, NaN, NaN>>, <<"t">>),
      NbRow(3, <<<<"R">>, NaN, NaN>>, PyInt(<<"2">>), <<NaN, NaN, NaN>>, <<"u">>),
      NbRow(4, <<<<"c">>, NaN, NaN>>, <<"1", ",", " ", "2">>, <<NaN, NaN, NaN>>,
            <<"v">>)>>
\* rows 1 and 2 point at each other
CyclicTable ==
    <<NbRow(1, <<<<"R">>, NaN, NaN>>, PyInt(<<"2">>), <<NaN, NaN, NaN>>, <<"s">>),
      NbRow(2, <<<<"R">>, NaN, NaN>>, One, <<NaN, NaN, NaN>>, <<"t">>),
      NbRow(3, <<<<"c">>, NaN, NaN>>, <<"1", ",", " ", "2">>, <<NaN, NaN, NaN>>,
            <<"u">>)>>
\* row 3 names two rows in a text
ListTable ==
    <<NbRow(1, <<<<"a">>, NaN, NaN>>, NaN, <<NaN, NaN, NaN>>, <<"s">>),
      NbRow(2, <<<<"b">>, NaN, NaN>>, NaN, <<NaN, NaN, NaN>>, <<"t">>),
      NbRow(3, <<<<"c">>, NaN, NaN>>, <<"1",","," ","2">>, <<NaN, NaN, NaN>>, <<"u">>)>>
RepetitionTables == {AliasTable, CyclicTable, ListTable}
PrefixSheet == << <<1, <<"P"," ">>>> >>
SuffixSheet == << <<1, <<"s","?">>>> >>
ModuleNames == {{}, {"Rs"}, {"Rs", "xls_mhdb"}}

GatherRsCalls ==
    {[op |-> "gather_Rs",
      args |-> [rb |-> rb, Neutral_Behaviors |-> nb, bound |-> g]] :
        rb \in {NaN, PyNone, One, PyInt(<<"2">>), PyInt(<<"3">>),
                PyInt(<<"7">>), PyFloat(<<"1">>), <<"1",","," ","2">>, <<"2",",">>, <<"2">>,
                <<"1", " ", "2">>},
        nb \in RepetitionTables, g \in ModuleNames}

RdfNbCalls ==
    {[op |-> "rdf_nb",
      args |-> [index |-> i, Neutral_Behaviors |-> nb, bound |-> g]] :
        i \in 1..4, nb \in RepetitionTables \cup LabelTables,
        g \in ModuleNames}

NoCall == [op |-> "none", s |-> <<>>, p |-> <<>>, o |-> <<>>]
Call(op, s, p, o) == [op |-> op, s |-> s, p |-> p, o |-> o]
Pending == [kind |-> "pending", val |-> <<>>]

\* the inner dicts of `subs` are one object in both stores: a change made
\* through `source` is seen through `target`
Mirror(target, source, subs) ==
    [target EXCEPT !.val = [k \in DOMAIN target.val |->
        IF k \in subs THEN source.val[k] ELSE target.val[k]]]

(***************************************************************************)
(* State machine.                                                          *)
(***************************************************************************)
NoSheet == [name |-> "none", rows |-> <<>>]
NoPending == [op |-> "none", args |-> <<>>]

\* no call of convert_string_to_label or object_split_lookup is under way and
\* no sheet is being ingested
InitIdle ==
    /\ label_arg = <<>>
    /\ label_result = Pending
    /\ lookup_cell = <<>>
    /\ lookup_sep = <<>>
    /\ lookup_table = <<>>
    /\ lookup_result = Pending
    /\ sheet = NoSheet
    /\ pending_call = NoPending
    /\ call_result = Pending

InitStore ==
    /\ InitIdle
    /\ statements = EmptyDict
    /\ add_if_defaults = EmptyDict
    /\ doi_iri_defaults = EmptyDict
    /\ audience_defaults = EmptyDict
    /\ aliased = {}
    /\ added = {}
    /\ err = "none"
    /\ ncalls = 0

Init ==
    /\ InitStore
    /\ last = NoCall
    /\ out = <<>>
    /\ iri = <<>>
    /\ prefixes = <<>>
    /\ iri_result = Pending

\* statements = add_if(s, p, o, statements)
AddIf ==
    \E s \in Subjects, p \in Predicates, o \in Objects :
        LET r == add_if(s, p, o, statements) IN
        /\ ncalls < MaxCalls
        /\ statements' = r.st
        /\ doi_iri_defaults' = Mirror(doi_iri_defaults, r.st, aliased)
        /\ err' = r.err
        /\ added' = added \cup {<<s, p, o>>}
        /\ last' = Call("add_if", s, p, o)
        /\ out' = <<>>
        /\ ncalls' = ncalls + 1
        /\ UNCHANGED <<add_if_defaults, audience_defaults, aliased, inputVars>>

\* add_if(s, p, o): the store argument omitted
AddIfDefault ==
    \E s \in Subjects, p \in Predicates, o \in Objects :
        LET r == add_if(s, p, o, add_if_defaults) IN
        /\ ncalls < MaxCalls
        /\ add_if_defaults' = r.st
        /\ err' = r.err
        /\ last' = Call("add_if()", s, p, o)
        /\ out' = <<>>
        /\ ncalls' = ncalls + 1
        /\ UNCHANGED <<statements, doi_iri_defaults, audience_defaults,
                       aliased, added, inputVars>>

\* statements = audience_statements(statements)
AudienceStatements ==
    \E order \in Perms({Male, Female}) :
        /\ ncalls < MaxCalls
        /\ statements' = audience_statements(statements, order)
        /\ aliased' = aliased \ {gendered_iri(Male), gendered_iri(Female)}
        /\ err' = "none"
        /\ last' = Call("audience_statements", <<>>, <<>>, <<>>)
        /\ out' = <<>>
        /\ ncalls' = ncalls + 1
        /\ UNCHANGED <<add_if_defaults, doi_iri_defaults, audience_defaults,
                       added, inputVars>>

\* audience_statements(): the store argument omitted
AudienceStatementsDefault ==
    \E order \in Perms({Male, Female}) :
        /\ ncalls < MaxCalls
        /\ audience_defaults' = audience_statements(audience_defaults, order)
        /\ err' = "none"
        /\ last' = Call("audience_statements()", <<>>, <<>>, <<>>)
        /\ out' = <<>>
        /\ ncalls' = ncalls + 1
        /\ UNCHANGED <<statements, add_if_defaults, doi_iri_defaults, aliased,
                       added, inputVars>>

\* statements = doi_iri(doi, title, statements)
DoiIri ==
    \E doi \in Dois, title \in Titles :
        LET r == doi_iri(doi, title, statements) IN
        /\ ncalls < MaxCalls
        /\ statements' = r.st
        /\ doi_iri_defaults' = Mirror(doi_iri_defaults, r.st, aliased)
        /\ err' = r.err
        /\ last' = Call("doi_iri", doi, title, <<>>)
        /\ out' = <<>>
        /\ ncalls' = ncalls + 1
        /\ UNCHANGED <<add_if_defaults, audience_defaults, aliased, added,
                       inputVars>>

\* doi_iri(doi, title): the store argument omitted
DoiIriDefault ==
    \E doi \in Dois, title \in Titles :
        LET r == doi_iri(doi, title, doi_iri_defaults) IN
        /\ ncalls < MaxCalls
        /\ doi_iri_defaults' = r.st
        /\ statements' = Mirror(statements, r.st, aliased)
        /\ err' = r.err
        /\ last' = Call("doi_iri()", doi, title, <<>>)
        /\ out' = <<>>
        /\ ncalls' = ncalls + 1
        /\ UNCHANGED <<add_if_defaults, audience_defaults, aliased, added,
                       inputVars>>

\* Project, 1016-1022: statements = {**doi_iri(doi, title), **statements}
ProjectMergeDoi ==
    LET r == doi_iri(ProjectDoi, ProjectDoiTitle, doi_iri_defaults)
        seen == Mirror(statements, r.st, aliased)
    IN
    /\ ncalls < MaxCalls
    /\ doi_iri_defaults' = r.st
    /\ statements' = IF r.err = "none" THEN merge_doi(r.st, seen) ELSE seen
    /\ aliased' = IF r.err = "none"
                  THEN aliased \cup (DOMAIN r.st.val \ DOMAIN statements.val)
                  ELSE aliased
    /\ err' = r.err
    /\ last' = Call("Project.doi_iri", ProjectDoi, ProjectDoiTitle, <<>>)
    /\ out' = <<>>
    /\ ncalls' = ncalls + 1
    /\ UNCHANGED <<add_if_defaults, audience_defaults, added, inputVars>>

\* Project, 1277-1305, for one disorder of one project row
ProjectMergeDisorder ==
    \E name \in DisorderNames, project \in ProjectNames :
        LET project_iri == check_iri(project, <<>>).val
            r == add_disorder(project_iri, name, statements)
        IN
        /\ ncalls < MaxCalls
        /\ statements' = IF r.err = "none" THEN r.st ELSE statements
        /\ doi_iri_defaults' = Mirror(doi_iri_defaults, r.st,
               aliased \ DOMAIN disorder_statements(name).val)
        /\ aliased' = IF r.err = "none"
                      THEN aliased \ DOMAIN disorder_statements(name).val
                      ELSE aliased
        /\ err' = r.err
        /\ last' = Call("Project.disorder_iri", name, project, <<>>)
        /\ out' = <<>>
        /\ ncalls' = ncalls + 1
        /\ UNCHANGED <<add_if_defaults, audience_defaults, added, inputVars>>

\* the next conversion run in the same interpreter starts from a new store
NewRun ==
    /\ ncalls < MaxCalls
    /\ statements # EmptyDict
    /\ statements' = EmptyDict
    /\ aliased' = {}
    /\ added' = {}
    /\ err' = "none"
    /\ last' = Call("new run", <<>>, <<>>, <<>>)
    /\ out' = <<>>
    /\ ncalls' = ncalls + 1
    /\ UNCHANGED <<add_if_defaults, doi_iri_defaults, audience_defaults,
                   inputVars>>

\* out = turtle_from_dict(statements)
TurtleFromDict ==
    \E text \in turtle_from_dict(statements) :
        /\ out' = text
        /\ err' = "none"
        /\ last' = Call("turtle_from_dict", <<>>, <<>>, <<>>)
        /\ UNCHANGED <<statements, add_if_defaults, doi_iri_defaults,
                       audience_defaults, aliased, added, ncalls, inputVars>>

\* every ingestion operation on the store of a run
Next ==
    \/ AddIf
    \/ AudienceStatements
    \/ DoiIri
    \/ ProjectMergeDoi
    \/ ProjectMergeDisorder
    \/ NewRun

Spec == Init /\ [][Next]_vars

\* the calls that omit the store argument, and Project's call of doi_iri
NextDefaults ==
    \/ AddIfDefault
    \/ AudienceStatementsDefault
    \/ DoiIriDefault
    \/ ProjectMergeDoi
    \/ NewRun

SpecDefaults == Init /\ [][NextDefaults]_vars

\* the arguments of a call of write_ttl
InitTtl ==
    /\ InitStore
    /\ \E subject \in Subjects, predicates \in SeqsUpTo(PredObjPairs, MaxPairs),
          common \in CommonStatements :
           last = Call("write_ttl args", subject, predicates, common)
    /\ out = <<>>
    /\ iri = <<>>
    /\ prefixes = <<>>
    /\ iri_result = Pending

\* out = write_ttl(subject, predicates, common_statements)
WriteTtl ==
    /\ last.op = "write_ttl args"
    /\ out' = write_ttl(last.s, last.p, last.o)
    /\ last' = [last EXCEPT !.op = "write_ttl"]
    /\ UNCHANGED <<statements, add_if_defaults, doi_iri_defaults,
                   audience_defaults, aliased, added, err, ncalls, inputVars>>

\* the store built by add_if alone and its serialization, and write_ttl
\* applied to every input
InitAdd == Init \/ InitTtl

NextAdd == AddIf \/ NewRun \/ TurtleFromDict \/ WriteTtl

SpecAdd == InitAdd /\ [][NextAdd]_vars

\* check_iri applied to every input
InitIri ==
    /\ InitStore
    /\ last = NoCall
    /\ out = <<>>
    /\ iri \in SeqsUpTo(IriAlphabet, MaxIriLen)
    /\ prefixes \in PrefixTables
    /\ iri_result = Pending

\* iri_result = check_iri(iri, prefixes)
CheckIri ==
    /\ iri_result = Pending
    /\ iri_result' = check_iri(iri, prefixes)
    /\ UNCHANGED <<storeVars, iri, prefixes, labelVars, lookupVars, sheet,
                   pending_call, call_result>>

SpecIri == InitIri /\ [][CheckIri]_vars

\* convert_string_to_label applied to every input
InitLabel ==
    /\ statements = EmptyDict
    /\ add_if_defaults = EmptyDict
    /\ doi_iri_defaults = EmptyDict
    /\ audience_defaults = EmptyDict
    /\ aliased = {}
    /\ added = {}
    /\ err = "none"
    /\ ncalls = 0
    /\ last = NoCall
    /\ out = <<>>
    /\ iri = <<>>
    /\ prefixes = <<>>
    /\ iri_result = Pending
    /\ label_arg \in SeqsUpTo(LabelAlphabet, MaxLabelLen) \cup NonStrings
    /\ label_result = Pending
    /\ lookup_cell = <<>>
    /\ lookup_sep = <<>>
    /\ lookup_table = <<>>
    /\ lookup_result = Pending
    /\ sheet = NoSheet
    /\ pending_call = NoPending
    /\ call_result = Pending

\* label_result = convert_string_to_label(label_arg)
ConvertStringToLabel ==
    /\ label_result = Pending
    /\ label_result' = convert_string_to_label(label_arg)
    /\ UNCHANGED <<storeVars, iriVars, label_arg, lookupVars, sheet,
                   pending_call, call_result>>

SpecLabel == InitLabel /\ [][ConvertStringToLabel]_vars

\* object_split_lookup applied to every input
InitLookup ==
    /\ statements = EmptyDict
    /\ add_if_defaults = EmptyDict
    /\ doi_iri_defaults = EmptyDict
    /\ audience_defaults = EmptyDict
    /\ aliased = {}
    /\ added = {}
    /\ err = "none"
    /\ ncalls = 0
    /\ last = NoCall
    /\ out = <<>>
    /\ iri = <<>>
    /\ prefixes = <<>>
    /\ iri_result = Pending
    /\ label_arg = <<>>
    /\ label_result = Pending
    /\ lookup_cell \in SeqsUpTo(CellAlphabet, MaxCellLen)
                        \cup {PyNone, NaN, PyInt(<<"2">>), PyFloat(<<"2">>)}
    /\ lookup_sep \in Separators
    /\ lookup_table \in LookupSheets
    /\ lookup_result = Pending
    /\ sheet = NoSheet
    /\ pending_call = NoPending
    /\ call_result = Pending

\* lookup_result = object_split_lookup(lookup_cell, lookup_table, ...,
\*                                     lookup_sep)
ObjectSplitLookup ==
    /\ lookup_result = Pending
    /\ lookup_result' = object_split_lookup(lookup_cell, lookup_table, lookup_sep)
    /\ UNCHANGED <<storeVars, iriVars, labelVars, lookup_cell, lookup_sep,
                   lookup_table, sheet, pending_call, call_result>>

SpecLookup == InitLookup /\ [][ObjectSplitLookup]_vars

\* a workbook is given to an ingestor
InitSheet ==
    /\ statements = EmptyDict
    /\ add_if_defaults = EmptyDict
    /\ doi_iri_defaults = EmptyDict
    /\ audience_defaults = EmptyDict
    /\ aliased = {}
    /\ added = {}
    /\ err = "none"
    /\ ncalls = 0
    /\ last = NoCall
    /\ out = <<>>
    /\ iri = <<>>
    /\ prefixes = <<>>
    /\ iri_result = Pending
    /\ label_arg = <<>>
    /\ label_result = Pending
    /\ lookup_cell = <<>>
    /\ lookup_sep = <<>>
    /\ lookup_table = <<>>
    /\ lookup_result = Pending
    /\ sheet \in {[name |-> "Sheet1", rows |-> rows] :
                     rows \in SeqsUpTo(BehaviorRows, MaxRows) \ {<<>>}}
               \cup {[name |-> "MHealthPeople", rows |-> rows] :
                     rows \in SeqsUpTo(PeopleRows, MaxRows) \ {<<>>}}
    /\ pending_call = NoPending
    /\ call_result = Pending

\* statements = BehaviorSheet1(behavior_xls, mentalhealth_xls,
\*                             statements=statements)
BehaviorSheet1Call ==
    /\ sheet.name = "Sheet1"
    /\ \E order \in Perms({Male, Female}) :
        LET r == BehaviorSheet1(sheet.rows, ReferenceSheet, GenderSheet,
                                statements, order) IN
        /\ ncalls < MaxCalls
        /\ statements' = r.st
        /\ err' = r.err
        /\ last' = Call("BehaviorSheet1", <<>>, <<>>, <<>>)
        /\ out' = <<>>
        /\ ncalls' = ncalls + 1
        /\ UNCHANGED <<add_if_defaults, doi_iri_defaults, audience_defaults,
                       aliased, added, inputVars>>

\* statements = MHealthPeople(technology_xls, statements=statements)
MHealthPeopleCall ==
    /\ sheet.name = "MHealthPeople"
    /\ \E r \in MHealthPeople(sheet.rows, statements) :
        /\ ncalls < MaxCalls
        /\ statements' = r.st
        /\ err' = r.err
        /\ last' = Call("MHealthPeople", <<>>, <<>>, <<>>)
        /\ out' = <<>>
        /\ ncalls' = ncalls + 1
        /\ UNCHANGED <<add_if_defaults, doi_iri_defaults, audience_defaults,
                       aliased, added, inputVars>>

NextSheet == BehaviorSheet1Call \/ MHealthPeopleCall \/ TurtleFromDict

SpecSheet == InitSheet /\ [][NextSheet]_vars

\* every variable but those of a document function call is at rest
InitQuiet ==
    /\ statements = EmptyDict
    /\ add_if_defaults = EmptyDict
    /\ doi_iri_defaults = EmptyDict
    /\ audience_defaults = EmptyDict
    /\ aliased = {}
    /\ added = {}
    /\ err = "none"
    /\ ncalls = 0
    /\ last = NoCall
    /\ out = <<>>
    /\ iri = <<>>
    /\ prefixes = <<>>
    /\ iri_result = Pending
    /\ label_arg = <<>>
    /\ label_result = Pending
    /\ lookup_cell = <<>>
    /\ lookup_sep = <<>>
    /\ lookup_table = <<>>
    /\ lookup_result = Pending
    /\ sheet = NoSheet

quietVars == <<storeVars, iriVars, labelVars, lookupVars, sheet>>

\* write_header and print_header applied to every input
InitHeader ==
    /\ InitQuiet
    /\ pending_call \in WriteHeaderCalls \cup PrintHeaderCalls
    /\ call_result = Pending

\* call_result = write_header(base_uri, version, label, comment, prefixes)
WriteHeader ==
    /\ pending_call.op = "write_header"
    /\ call_result = Pending
    /\ call_result' = Str(write_header(pending_call.args.base_uri,
           pending_call.args.version, pending_call.args.label,
           pending_call.args.comment, pending_call.args.prefixes))
    /\ UNCHANGED <<quietVars, pending_call>>

\* call_result = print_header(base_uri, version, label, comment, prefixes,
\*                            imports)
PrintHeader ==
    /\ pending_call.op = "print_header"
    /\ call_result = Pending
    /\ call_result' = Str(print_header(pending_call.args.base_uri,
           pending_call.args.version, pending_call.args.label,
           pending_call.args.comment, pending_call.args.prefixes,
           pending_call.args.imports))
    /\ UNCHANGED <<quietVars, pending_call>>

NextHeader == WriteHeader \/ PrintHeader

SpecHeader == InitHeader /\ [][NextHeader]_vars

\* get_cells applied to every input
InitCells ==
    /\ InitQuiet
    /\ pending_call \in {c \in GetCellsCalls :
                            c.args.index < Len(c.args.worksheet.rows)}
    /\ call_result = Pending

\* call_result = get_cells(worksheet, index, worksheet2, exclude, True)
GetCells ==
    /\ pending_call.op = "get_cells"
    /\ call_result = Pending
    /\ call_result' = get_cells(pending_call.args.worksheet,
           pending_call.args.index, pending_call.args.worksheet2,
           pending_call.args.exclude, TRUE)
    /\ UNCHANGED <<quietVars, pending_call>>

SpecCells == InitCells /\ [][GetCells]_vars

\* the functions that embed a text in a literal, applied to every input
InitLiteral ==
    /\ InitQuiet
    /\ pending_call \in WriteHeaderCalls \cup BuildRdfCalls \cup NbRdfCalls
    /\ call_result = Pending

\* call_result = build_rdf(uri_stem, rdf_type, label, comment, index,
\*                         worksheet, worksheet2, ...)
BuildRdf ==
    /\ pending_call.op = "build_rdf"
    /\ call_result = Pending
    /\ call_result' = build_rdf(pending_call.args.uri_stem,
           pending_call.args.rdf_type, pending_call.args.label,
           pending_call.args.comment, pending_call.args.index,
           pending_call.args.worksheet, pending_call.args.worksheet2,
           pending_call.args.equivalent_class_uri,
           pending_call.args.subclassof_uri,
           pending_call.args.property_domain,
           pending_call.args.property_range, pending_call.args.exclude,
           pending_call.args.conceptualizations)
    /\ UNCHANGED <<quietVars, pending_call>>

\* call_result = nb_rdf(label, p1, s1, dim_p1)
NbRdf ==
    /\ pending_call.op = "nb_rdf"
    /\ call_result = Pending
    /\ call_result' = nb_rdf(pending_call.args.label, pending_call.args.p1,
           pending_call.args.s1, pending_call.args.dim_p1)
    /\ UNCHANGED <<quietVars, pending_call>>

NextLiteral == WriteHeader \/ BuildRdf \/ NbRdf

SpecLiteral == InitLiteral /\ [][NextLiteral]_vars

\* write_about_statement applied to every input
InitAbout ==
    /\ InitQuiet
    /\ pending_call \in AboutCalls
    /\ call_result = Pending

\* call_result = write_about_statement(subject, predicate, object, predicates)
WriteAboutStatement ==
    /\ pending_call.op = "write_about_statement"
    /\ call_result = Pending
    /\ call_result' = Str(write_about_statement(pending_call.args.subject,
           pending_call.args.predicate, pending_call.args.object,
           pending_call.args.predicates))
    /\ UNCHANGED <<quietVars, pending_call>>

SpecAbout == InitAbout /\ [][WriteAboutStatement]_vars

\* gather_Rs and rdf_nb applied to every input
InitNb ==
    /\ InitQuiet
    /\ pending_call \in GatherRsCalls \cup RdfNbCalls
    /\ call_result = Pending

\* call_result = gather_Rs(rb, Neutral_Behaviors): the list of the set, in
\* any order
GatherRs ==
    /\ pending_call.op = "gather_Rs"
    /\ call_result = Pending
    /\ LET r == gather_Rs(pending_call.args.rb,
                          pending_call.args.Neutral_Behaviors,
                          pending_call.args.bound, 1)
       IN IF r.kind = "raise" THEN call_result' = r
          ELSE \E order \in Perms(r.val) : call_result' = ListResult(order)
    /\ UNCHANGED <<quietVars, pending_call>>

\* call_result = rdf_nb(index, Neutral_Behaviors, mhdb, NBP, DimP, NBS,
\*                      References)
RdfNbCall ==
    /\ pending_call.op = "rdf_nb"
    /\ call_result = Pending
    /\ call_result' \in rdf_nb(pending_call.args.index,
           pending_call.args.Neutral_Behaviors, <<>>, PrefixSheet,
           PrefixSheet, SuffixSheet, ReferenceSheet, 0,
           pending_call.args.bound, 1)
    /\ UNCHANGED <<quietVars, pending_call>>

NextNb == GatherRs \/ RdfNbCall

SpecNb == InitNb /\ [][NextNb]_vars


(***************************************************************************)
(* Properties of add_if.                                                   *)
(***************************************************************************)
\* the (subject, predicate) pairs of a store
Pairs(st) ==
    UNION { {<<s, p>> : p \in DOMAIN st.val[s].val} : s \in DOMAIN st.val }

\* the store that holds exactly the triples T, every object in a set
StoreOfTriples(T) ==
    [keys |-> <<>>,
     val  |-> [s \in {t[1] : t \in T} |->
                 [keys |-> <<>>,
                  val  |-> [p \in {t[2] : t \in {u \in T : u[1] = s}} |->
                              PySet({t[3] : t \in {u \in T : u[1] = s /\ u[2] = p}})]]]]

\* C1: add_if is idempotent: in every store reached by add_if calls, adding
\* any triple a second time returns the store that adding it once returned.
C1_AddIfIdempotent ==
    \A s \in Subjects, p \in Predicates, o \in Objects :
        LET once == add_if(s, p, o, statements)
            twice == add_if(s, p, o, once.st)
        IN /\ twice.st = once.st
           /\ StoreEq(twice.st, once.st)
           /\ twice.err = "none"

\* a triple has been added twice to the store of the run
C1_Witness ==
    /\ last.op = "add_if"
    /\ ncalls = 2
    /\ Cardinality(added) = 1
    /\ Triples(statements) = added

\* C2: a call of add_if never deletes and changes nothing else: every triple
\* of the store is still there, the only triple that can be new is the one
\* added, the only (subject, predicate) pair that can be new is its pair, and
\* the value of every other pair is what it was.
C2_AddIfFrame ==
    [][ (last'.op = "add_if" /\ ncalls' = ncalls + 1) =>
          /\ Triples(statements) \subseteq Triples(statements')
          /\ Triples(statements') \ Triples(statements)
                \subseteq {<<last'.s, last'.p, last'.o>>}
          /\ Pairs(statements) \subseteq Pairs(statements')
          /\ Pairs(statements') \ Pairs(statements) \subseteq {<<last'.s, last'.p>>}
          /\ \A sp \in Pairs(statements) \ {<<last'.s, last'.p>>} :
                statements'.val[sp[1]].val[sp[2]] = statements.val[sp[1]].val[sp[2]]
      ]_vars

\* add_if has added a second object to a pair that another add_if created
C2_Witness ==
    /\ last.op = "add_if"
    /\ err = "none"
    /\ \E s \in DOMAIN statements.val : \E p \in DOMAIN statements.val[s].val :
          /\ statements.val[s].val[p].kind = "set"
          /\ Cardinality(statements.val[s].val[p].objs) = 2

\* C5: the store does not depend on the order of the add_if calls: whatever
\* the order in which the calls of a run were made, the store equals the
\* store that holds exactly the set of the triples added.
C5_AddOrderIrrelevant ==
    StoreEq(statements, StoreOfTriples(added))

\* two different triples of one subject and predicate have been added
C5_Witness ==
    /\ last.op = "add_if"
    /\ Cardinality(added) = 2
    /\ \E t \in added, u \in added : t # u /\ t[1] = u[1] /\ t[2] = u[2]

(***************************************************************************)
(* Properties of the serializer.                                           *)
(***************************************************************************)
\* number of occurrences of sub in s
Count(s, sub) ==
    Cardinality({i \in 1..(Len(s) - Len(sub) + 1) :
                    SubSeq(s, i, i + Len(sub) - 1) = sub})

\* the blocks of a text returned by turtle_from_dict
Blocks(text) == IF text = <<>> THEN <<>> ELSE Split(text, <<"\n","\n">>)

\* the 'predicate object' strings of a block that starts with `subject`
BlockPairs(block, subject) ==
    Split(SubSeq(block, Len(subject) + 2, Len(block) - 2), <<" ",";","\n","\t">>)

\* C8: the text turtle_from_dict returns for a store built by add_if calls
\* has one block per subject, and the 'predicate object' strings of the block
\* of subject s are those of the triples (s, p, o) of the store, each once.
C8_TurtleExactlyTheTriples ==
    last.op = "turtle_from_dict" =>
        LET blocks == Blocks(out) IN
        /\ Len(blocks) = Cardinality(DOMAIN statements.val)
        /\ \A i \in 1..Len(blocks) :
              LET s == statements.keys[i]
                  pairs == BlockPairs(blocks[i], s)
                  want == {PredicateObject(t[2], t[3]) :
                              t \in {u \in Triples(statements) : u[1] = s}}
              IN /\ StartsWith(blocks[i], s \o <<" ">>)
                 /\ EndsWith(blocks[i], <<" ",".">>)
                 /\ {pairs[j] : j \in 1..Len(pairs)} = want
                 /\ Len(pairs) = Cardinality(want)
        /\ \A i, j \in 1..Len(statements.keys) :
              statements.keys[i] = statements.keys[j] => i = j

\* a store to which one triple was added twice is serialized
C8_Witness ==
    /\ last.op = "turtle_from_dict"
    /\ ncalls = 2
    /\ Cardinality(added) = 1
    /\ out # <<>>

\* a block is the subject, a space, n pairs joined by " ;\n\t", and " ."
WellPunctuated(block, subject, n) ==
    /\ StartsWith(block, subject \o <<" ">>)
    /\ EndsWith(block, <<" ",".">>)
    /\ block[Len(block)] = "."
    /\ Count(block, <<" ",";","\n","\t">>) = n - 1
    /\ Count(block, <<" ",".">>) = 1

\* C9: write_ttl without common_statements returns, for n >= 1 pairs, the
\* subject, a space, the pairs in order joined by " ;\n\t", and one " ." that
\* ends the text; so does every block of turtle_from_dict.
C9_WellPunctuated ==
    /\ (last.op = "write_ttl" /\ last.o = <<>> /\ last.p # <<>>) =>
          /\ WellPunctuated(out, last.s, Len(last.p))
          /\ BlockPairs(out, last.s) =
                [i \in 1..Len(last.p) |->
                    last.p[i][1] \o <<" ">> \o last.p[i][2]]
    /\ last.op = "turtle_from_dict" =>
          \A i \in 1..Len(Blocks(out)) :
              WellPunctuated(Blocks(out)[i], statements.keys[i],
                  Cardinality({t \in Triples(statements) :
                                  t[1] = statements.keys[i]}))

\* write_ttl has rendered two pairs without common_statements
C9_Witness ==
    /\ last.op = "write_ttl"
    /\ last.o = <<>>
    /\ Len(last.p) = 2
    /\ last.p[1] # last.p[2]


(***************************************************************************)
(* Properties of the merges.                                               *)
(***************************************************************************)
\* the statements Project's call of doi_iri returns
ProjectDoiStatements ==
    doi_iri(ProjectDoi, ProjectDoiTitle, doi_iri_defaults).st

\* the audience statements of one gender, as a store
GenderStore(g) == Put(EmptyDict, gendered_iri(g), g_statements(g))

\* C3: each merge of two statement maps in the code keeps every triple of
\* both operands: Project's merge of the doi_iri statements, Project's merge
\* of the disorder_iri statements, and the merge of audience_statements.
C3_MergeKeepsBoth ==
    /\ Triples(ProjectDoiStatements) \cup Triples(statements)
          \subseteq Triples(merge_doi(ProjectDoiStatements, statements))
    /\ \A name \in DisorderNames :
          Triples(statements) \cup Triples(disorder_statements(name))
             \subseteq Triples(merge_disorder(statements, name))
    /\ \A order \in Perms({Male, Female}) :
          Triples(statements) \cup Triples(GenderStore(Male))
                \cup Triples(GenderStore(Female))
             \subseteq Triples(audience_statements(statements, order))

\* C4: the merges of Project are commutative: the operands taken in the
\* other order give an equal store.
C4_MergeCommutes ==
    /\ StoreEq(merge_doi(ProjectDoiStatements, statements),
               merge_doi(statements, ProjectDoiStatements))
    /\ \A name \in DisorderNames :
          StoreEq(merge_disorder(statements, name),
                  DictMerge(disorder_statements(name), statements))

\* C6: every value of the store is a set, and add_if completes on it for
\* every subject, predicate and object.
C6_StoreOperationsNeverFail ==
    /\ err = "none"
    /\ \A sp \in Pairs(statements) :
          statements.val[sp[1]].val[sp[2]].kind = "set"
    /\ \A s \in Subjects, p \in Predicates, o \in Objects :
          add_if(s, p, o, statements).err = "none"

\* C7: a call that omits the store returns its own statements only.
C7_OmittedStoreStartsEmpty ==
    /\ last.op = "add_if()" =>
          Triples(add_if_defaults) = {<<last.s, last.p, last.o>>}
    /\ last.op = "doi_iri()" =>
          StoreEq(doi_iri_defaults, doi_iri(last.s, last.p, EmptyDict).st)
    /\ last.op = "audience_statements()" =>
          \E order \in Perms({Male, Female}) :
              StoreEq(audience_defaults, audience_statements(EmptyDict, order))

(***************************************************************************)
(* Properties of check_iri.                                                *)
(***************************************************************************)
\* C10: check_iri returns "<" + v + ">" for every v that contains "://",
\* whatever the prefix table.
C10_AbsoluteInBrackets ==
    (iri_result # Pending /\ Contains(iri, <<":","/","/">>)) =>
        iri_result = Str(<<"<">> \o iri \o <<">">>)

\* v is a prefixed name whose prefix is registered (write_ttl.py 40-47)
RegisteredPrefixedName(v, pfx) ==
    /\ Contains(v, <<":">>)
    /\ ~Contains(v, <<":"," ">>)
    /\ SplitHead(v, ":") \in prefix_strings(pfx)

\* C11: check_iri returns v itself for every v that contains ":" but not ": "
\* and whose segment before the first ":" is a registered prefix.
C11_PrefixedPassedThrough ==
    (iri_result # Pending /\ RegisteredPrefixedName(iri, prefixes)) =>
        iri_result = Str(iri)

\* C12: for every non-empty string check_iri returns a string, and for a
\* value that is neither absolute nor a registered prefixed name it returns
\* "mhdb:" followed by the slug of the whole value.
C12_FallsBackToLabel ==
    (iri_result # Pending /\ iri # <<>>) =>
        /\ iri_result.kind = "str"
        /\ (~Contains(iri, <<":","/","/">>)
               /\ ~RegisteredPrefixedName(iri, prefixes)) =>
              iri_result = Str(<<"m","h","d","b",":">>
                                  \o convert_string_to_label(iri).val)

(***************************************************************************)
(* Properties of convert_string_to_label.                                  *)
(***************************************************************************)
\* the characters [A-Za-z0-9._-]
SlugChars == Lower \cup Upper \cup Digit \cup {".", "_", "-"}

\* C13: every character of the slug returned for a non-empty string is in
\* [A-Za-z0-9._-].
C13_SlugCharsSafe ==
    (label_result.kind = "str" /\ IsStr(label_arg) /\ label_arg # <<>>) =>
        \A i \in 1..Len(label_result.val) : label_result.val[i] \in SlugChars

\* the test of the reference transform: alphanumeric or one of "-", ".", "_"
KeepReferenceChar(c) == isalnum(c) \/ c \in {"-", ".", "_"}

\* the reference transform: strip the ends, each space to "_", each "_-_"
\* to "-", then keep the alphanumeric characters and "-", ".", "_"
ReferenceLabel(s) ==
    SelectSeq(Replace(Replace(Strip(s), <<" ">>, <<"_">>),
                      <<"_","-","_">>, <<"-">>),
              KeepReferenceChar)

\* C14: convert_string_to_label returns the reference transform of every
\* non-empty string.
C14_EqualsReferenceTransform ==
    (label_result # Pending /\ IsStr(label_arg) /\ label_arg # <<>>) =>
        label_result = Str(ReferenceLabel(label_arg))

\* C15: convert_string_to_label raises for every input that is not a string
\* and for the empty string, and for every other input it raises or returns
\* a slug of at least one character.
C15_NeverEmptySlug ==
    label_result # Pending =>
        /\ (~IsStr(label_arg) \/ label_arg = <<>>) => label_result = Raise
        /\ label_result = Raise
              \/ (label_result.kind = "str" /\ Len(label_result.val) >= 1)

(***************************************************************************)
(* Properties of object_split_lookup.                                      *)
(***************************************************************************)
\* the pieces of a cell between the separators
CellPieces(cell, sep) ==
    IF Contains(PyStr(cell), sep) THEN Split(PyStr(cell), sep)
    ELSE <<PyStr(cell)>>

\* the key column of the table holds k
HasKey(table, k) == \E j \in 1..Len(table) : table[j][1] = k

\* the cell is a separated list of integers that all occur in the key column
IsIndexList(cell, sep, table) ==
    /\ cell \notin {PyNone, NaN}
    /\ \A i \in 1..Len(CellPieces(cell, sep)) :
          /\ ParseInt(CellPieces(cell, sep)[i]).ok
          /\ HasKey(table, ParseInt(CellPieces(cell, sep)[i]).val)

\* the value of the first row of the table whose key is k
ValueOfKey(table, k) ==
    table[CHOOSE j \in 1..Len(table) :
              /\ table[j][1] = k
              /\ \A h \in 1..(j - 1) : table[h][1] # k][2]

\* C16: for a cell that is a separated list of integers that all occur in
\* the key column, object_split_lookup returns the list of check_iri(value)
\* of the matching rows, one per index and in the order of the cell; for an
\* empty cell it returns the empty list.
C16_SplitLookupInOrder ==
    lookup_result # Pending =>
        /\ IsIndexList(lookup_cell, lookup_sep, lookup_table) =>
              lookup_result = ListResult(
                  [i \in 1..Len(CellPieces(lookup_cell, lookup_sep)) |->
                      check_iri(ValueOfKey(lookup_table,
                          ParseInt(CellPieces(lookup_cell, lookup_sep)[i]).val),
                          <<>>)])
        /\ lookup_cell \in {<<>>, NaN} => lookup_result = ListResult(<<>>)

\* a list of two indices has been resolved to two different IRIs in a table
\* where one of the keys has two rows
C16_Witness ==
    /\ lookup_result.kind = "list"
    /\ Len(lookup_result.val) = 2
    /\ lookup_result.val[1] # lookup_result.val[2]
    /\ Contains(lookup_cell, lookup_sep)
    /\ \E i, j \in 1..Len(lookup_table) :
          /\ i # j
          /\ lookup_table[i][1] = lookup_table[j][1]
          /\ lookup_table[i][1] = ParseInt(CellPieces(lookup_cell, lookup_sep)[1]).val

\* C17: object_split_lookup always returns a list, and the empty list for a
\* cell that does not parse or that holds an index absent from the table.
C17_LookupAlwaysList ==
    lookup_result # Pending =>
        /\ lookup_result.kind = "list"
        /\ ~IsIndexList(lookup_cell, lookup_sep, lookup_table) =>
              lookup_result = ListResult(<<>>)

(***************************************************************************)
(* Properties of the ingestion of the symptom sheet.                       *)
(***************************************************************************)
\* the Reference sheet holds a row whose index is k
ReferenceResolves(k) ==
    \E j \in 1..Len(ReferenceSheet) : ReferenceSheet[j].index = k

\* the row of the Reference sheet whose index is k
ReferenceRow(k) ==
    ReferenceSheet[CHOOSE j \in 1..Len(ReferenceSheet) :
                      ReferenceSheet[j].index = k]

\* the IRI of a reference: the link in angle brackets, or "mhdb:" and the
\* slug of the name where the link is missing
ReferenceIri(k) ==
    IF IsStr(ReferenceRow(k).ReferenceLink)
    THEN <<"<">> \o ReferenceRow(k).ReferenceLink \o <<">">>
    ELSE <<"m","h","d","b",":">>
            \o convert_string_to_label(ReferenceRow(k).ReferenceName).val

\* C18: after the ingestion of a sheet whose rows all have a reference in
\* the Reference table, every row's symptom has the IRI of its reference as
\* a dcterms:source: the link in angle brackets, or the IRI made from the
\* reference name where the link is missing.
C18_SourceAlwaysResolved ==
    (/\ last.op = "BehaviorSheet1"
     /\ \A i \in 1..Len(sheet.rows) :
           ReferenceResolves(sheet.rows[i].reference_index)) =>
        \A i \in 1..Len(sheet.rows) :
            /\ <<check_iri(sheet.rows[i].symptom, <<>>).val, dcterms_source,
                 ReferenceIri(sheet.rows[i].reference_index)>>
                  \in Triples(statements)
            /\ rdf_nb_reference(sheet.rows[i].reference_index, ReferenceSheet)
                  = ReferenceIri(sheet.rows[i].reference_index)

\* C19: the ingestion of a sheet that holds a row whose reference_index is
\* not in the Reference table does not raise, and every row of the sheet,
\* also those after that row, is ingested.
C19_UnresolvedReferenceTolerated ==
    (/\ last.op = "BehaviorSheet1"
     /\ \E i \in 1..Len(sheet.rows) :
           ~ReferenceResolves(sheet.rows[i].reference_index)) =>
        /\ err = "none"
        /\ \A i \in 1..Len(sheet.rows) :
              <<check_iri(sheet.rows[i].symptom, <<>>).val, rdfs_label,
                language_string(sheet.rows[i].symptom)>> \in Triples(statements)

\* the spellings of a missing value, as a subject or an object
MissingValues ==
    {PyNone, NaN, <<"n","a","n">>, <<"m","h","d","b",":","N","o","n","e">>,
     <<"m","h","d","b",":","n","a","n">>}

\* C20: no store reached by ingestion holds a triple whose subject or object
\* is a missing value, and no text of turtle_from_dict holds a block whose
\* subject, or a pair whose object, is the text of a missing value.
C20_NoMissingValueInOutput ==
    /\ \A tr \in Triples(statements) :
          tr[1] \notin MissingValues /\ tr[3] \notin MissingValues
    /\ last.op = "turtle_from_dict" =>
          \A i \in 1..Len(Blocks(out)) : \A m \in MissingValues :
              /\ ~StartsWith(Blocks(out)[i], PyStr(m) \o <<" ">>)
              /\ \A j \in 1..Len(BlockPairs(Blocks(out)[i], statements.keys[i])) :
                    ~EndsWith(BlockPairs(Blocks(out)[i], statements.keys[i])[j],
                              <<" ">> \o PyStr(m))

(***************************************************************************)
(* Properties of audience_statements.                                      *)
(***************************************************************************)
\* the store holds the subject once, and its rdfs:subClassOf holds
\* schema:PeopleAudience
IsAudienceClass(st, subject) ==
    /\ Has(st, subject)
    /\ Cardinality({i \in 1..Len(st.keys) : st.keys[i] = subject}) = 1
    /\ Has(st.val[subject], rdfs_subClassOf)
    /\ schema_PeopleAudience \in Elems(st.val[subject].val[rdfs_subClassOf])

\* C21: on every store, a call of audience_statements gives a store that
\* holds mhdb:MaleAudience and mhdb:FemaleAudience once each, with
\* schema:PeopleAudience among their rdfs:subClassOf, and a second call
\* returns a store equal to that of the first; the store a call has just
\* returned is of that kind.
C21_AudienceIdempotent ==
    /\ \A o1 \in Perms({Male, Female}), o2 \in Perms({Male, Female}) :
          LET first == audience_statements(statements, o1)
              second == audience_statements(first, o2)
          IN /\ IsAudienceClass(first, gendered_iri(Male))
             /\ IsAudienceClass(first, gendered_iri(Female))
             /\ StoreEq(second, first)
    /\ last.op = "audience_statements" =>
          /\ IsAudienceClass(statements, gendered_iri(Male))
          /\ IsAudienceClass(statements, gendered_iri(Female))

\* audience_statements has run on a store that already held a gendered
\* audience
C21_Witness ==
    /\ last.op = "audience_statements"
    /\ ncalls = 2
    /\ DOMAIN statements.val = {gendered_iri(Male), gendered_iri(Female)}


(***************************************************************************)
(* Properties of the document header.                                      *)
(***************************************************************************)
\* a call of the named document function has returned a text
Returned_text(op) == pending_call.op = op /\ call_result.kind = "str"

\* the lines of a text
Lines(text) == Split(text, <<"\n">>)

\* the number of lines of a text that start with a word
CountLines(text, word) ==
    Cardinality({i \in 1..Len(Lines(text)) : StartsWith(Lines(text)[i], word)})

\* C22: for every base URI and list of (prefix, IRI) pairs, the lines of the
\* text of write_header are, in this order: the '@prefix' line of the default
\* prefix bound to base_uri + '#', one '@prefix' line per pair in the given
\* order, the only '@base' line, whose IRI is base_uri, and the only ontology
\* statement: rdf:type owl:Ontology, versionIRI, versionInfo, label and
\* comment, ended by '.'.
C22_HeaderShape ==
    Returned_text("write_header") =>
        LET a == pending_call.args
            b == PyStr(a.base_uri)
            n == Len(a.prefixes)
            ls == Lines(call_result.val)
        IN /\ Len(ls) = n + 9
           /\ ls[1] = <<"@","p","r","e","f","i","x"," ",":"," ","<">> \o b \o <<"#",">"," ",".">>
           /\ \A i \in 1..n :
                 ls[1 + i] = <<"@","p","r","e","f","i","x"," ">> \o a.prefixes[i][1] \o <<":"," ","<">>
                                \o a.prefixes[i][2] \o <<">"," ",".">>
           /\ ls[n + 2] = <<"@","b","a","s","e"," ","<">> \o b \o <<">"," ",".">>
           /\ CountLines(call_result.val, <<"@","p","r","e","f","i","x">>) = n + 1
           /\ CountLines(call_result.val, <<"@","b","a","s","e">>) = 1
           /\ ls[n + 3] = <<"<">> \o b \o <<">"," ","r","d","f",":","t","y","p","e"," ","o","w","l",
                     ":","O","n","t","o","l","o","g","y"," ",";">>
           /\ Cardinality({i \in 1..Len(ls) :
                              Contains(ls[i], <<"r","d","f",":","t","y","p","e"," ",
                                        "o","w","l",":","O","n","t","o","l",
                                        "o","g","y">>)}) = 1
           /\ StartsWith(ls[n + 4], <<" "," "," "," ","o","w","l",":","v","e","r","s","i","o",
                     "n","I","R","I"," ","<">>)
           /\ EndsWith(ls[n + 4], <<";">>)
           /\ StartsWith(ls[n + 5], <<" "," "," "," ","o","w","l",":","v","e","r","s","i","o",
                     "n","I","n","f","o"," ","\"">>)
           /\ EndsWith(ls[n + 5], <<";">>)
           /\ StartsWith(ls[n + 6], <<" "," "," "," ","r","d","f","s",":","l","a","b","e","l",
                     " ","\"">>)
           /\ EndsWith(ls[n + 6], <<";">>)
           /\ StartsWith(ls[n + 7], <<" "," "," "," ","r","d","f","s",":","c","o","m","m","e",
                     "n","t"," ">>)
           /\ EndsWith(ls[n + 7], <<" ",".">>)
           /\ ls[n + 8] = <<>> /\ ls[n + 9] = <<>>

\* write_header has returned for two different supplied prefixes
C22_Witness ==
    /\ Returned_text("write_header")
    /\ Len(pending_call.args.prefixes) = 2
    /\ pending_call.args.prefixes[1] # pending_call.args.prefixes[2]

\* the prefixes every header is to declare
AlwaysPresent ==
    {<<"o","w","l">>, <<"r","d","f">>, <<"r","d","f","s">>, <<"x","s","d">>, <<"x","m","l">>, <<"d","c","t","e","r","m","s">>}

\* C23: for every supplied prefix list, the empty one included, the text of
\* write_header and of print_header holds an '@prefix' declaration of each of
\* owl, rdf, rdfs, xsd, xml and dcterms.
C23_AlwaysPresentPrefixes ==
    (Returned_text("write_header") \/ Returned_text("print_header")) =>
        \A p \in AlwaysPresent :
            Contains(call_result.val, <<"@","p","r","e","f","i","x"," ">> \o p \o <<":"," ","<">>)

\* the text ends, blanks apart, with a ';' followed by the closing '.'
DanglingSeparator(text) ==
    LET body == RStrip(text)
    IN /\ EndsWith(body, <<".">>)
       /\ EndsWith(RStrip(SubSeq(body, 1, Len(body) - 1)), <<";">>)

\* no import is given: None, the empty list, or a list of absent entries
NoImports(imports) ==
    \/ imports = NoList
    \/ \A i \in 1..Len(imports) : imports[i] = PyNone

\* C24: a header built with comment None or '' holds no rdfs:comment clause,
\* and a header of print_header built with imports None, empty or all absent
\* holds no owl:imports clause and no ';' left before the closing '.'.
C24_AbsentFieldsOmitted ==
    /\ (Returned_text("write_header") \/ Returned_text("print_header")) =>
          (~Truthy(pending_call.args.comment) =>
              ~Contains(call_result.val, <<"r","d","f","s",":","c","o","m","m","e","n","t">>))
    /\ Returned_text("print_header") =>
          (NoImports(pending_call.args.imports) =>
              /\ ~Contains(call_result.val, <<"o","w","l",":","i","m","p","o","r","t","s">>)
              /\ ~DanglingSeparator(call_result.val))


(***************************************************************************)
(* Properties of the representations of an index cell.                     *)
(***************************************************************************)
\* the index that a cell holds as the string 'k', the int k or the float
\* k.0: [ok, val], ok FALSE for any other cell
CellIndex(cell) ==
    IF cell \in {PyNone, NaN} THEN [ok |-> FALSE, val |-> 0]
    ELSE IF IsStr(cell) THEN ParseInt(cell)
    ELSE [ok |-> TRUE, val |-> DigitsValue(Tail(cell))]

\* C29: for a cell that holds one index k of the key column, as the string
\* 'k', the int k or the float k.0, object_split_lookup returns the list of
\* the one element check_iri(value of the first row of k); for a missing cell
\* ('', None, nan) it returns [].
C29_AnyRepresentation ==
    lookup_result # Pending =>
        /\ (CellIndex(lookup_cell).ok
              /\ HasKey(lookup_table, CellIndex(lookup_cell).val)
              /\ check_iri(ValueOfKey(lookup_table, CellIndex(lookup_cell).val),
                           <<>>) # Raise) =>
              lookup_result =
                  ListResult(<<check_iri(ValueOfKey(lookup_table,
                                            CellIndex(lookup_cell).val), <<>>)>>)
        /\ lookup_cell \in {<<>>, PyNone, NaN} =>
              lookup_result = ListResult(<<>>)


(***************************************************************************)
(* Properties of get_cells.                                                *)
(***************************************************************************)
\* the cell is an int or a float with an integral value
IsNumber(cell) == cell # <<>> /\ cell[1] \in {"<int>", "<float>"}

\* what a cell of the reference sheet is returned as: None for an empty or
\* excluded cell
ReturnedCell(cell, exclude) ==
    IF cell = NaN \/ cell \in exclude THEN PyNone ELSE cell

\* C28: get_cells does not raise for a row of the worksheet; where the
\* DefinitionReference_index cell is a number equal to the 'index' of some
\* row of the reference sheet, 0 and the first row included, it returns the
\* ReferenceName and ReferenceLink of the first such row; where the number
\* matches no row it returns (None, None).
C28_ReferenceResolvedForEveryIndex ==
    (pending_call.op = "get_cells" /\ call_result # Pending) =>
        LET a == pending_call.args
            cell == a.worksheet.rows[a.index + 1].DefinitionReference_index
            k == DigitsValue(Tail(cell))
            matches == IndexMatches(a.worksheet2, k)
        IN /\ call_result.kind = "value"
           /\ (a.worksheet2 # NoWorksheet /\ IsNumber(cell)) =>
                 IF matches # {}
                 THEN LET r == a.worksheet2.rows[
                                  1 + CHOOSE i \in matches :
                                          \A j \in matches : i <= j]
                      IN /\ call_result.val[6] =
                              ReturnedCell(r.ReferenceName, a.exclude)
                         /\ call_result.val[7] =
                              ReturnedCell(r.ReferenceLink, a.exclude)
                 ELSE /\ call_result.val[6] = PyNone
                      /\ call_result.val[7] = PyNone


(***************************************************************************)
(* Properties of the literals.                                             *)
(***************************************************************************)
\* the number of double quotes of a text that no backslash precedes
UnescapedQuotes(text) ==
    Cardinality({i \in 1..Len(text) :
                    text[i] = "\"" /\ (i = 1 \/ text[i - 1] # "\\")})

\* the number of literals of a text closed by three double quotes, and by one
LongLiterals(text) ==
    Cardinality(Occurrences(text, <<"\"","\"","\"","^","^">>) \cup Occurrences(text, <<"\"","\"","\"","@">>))
ShortLiterals(text) ==
    Cardinality(Occurrences(text, <<"\"","^","^">>) \cup Occurrences(text, <<"\"", "@">>))
        - LongLiterals(text)

\* a text without its '###' comment lines
Statements(text) ==
    Join(SelectSeq(Lines(text), LAMBDA l : ~StartsWith(l, <<"#", "#", "#">>)),
         <<"\n">>)

\* C25: in the statements of every text that build_rdf, nb_rdf or
\* write_header returns, the only double quotes that no backslash precedes
\* are the delimiters of the literals: two for each short literal and six
\* for each long one.
C25_NoLiteralBrokenByQuote ==
    (pending_call.op \in {"build_rdf", "nb_rdf", "write_header"}
        /\ call_result.kind = "str") =>
        UnescapedQuotes(Statements(call_result.val)) =
            2 * ShortLiterals(Statements(call_result.val))
                + 6 * LongLiterals(Statements(call_result.val))


(***************************************************************************)
(* Properties of write_about_statement.                                    *)
(***************************************************************************)
\* the blank node of a triple: '_:' and the label of subject_predicate_object
BlankNode(s, p, o) ==
    <<"_",":">> \o convert_string_to_label(s \o <<"_">> \o p \o <<"_">> \o o).val

\* C26: for every triple (s, p, o) and list of extra pairs,
\* write_about_statement returns one block whose subject is the blank node
\* of the triple and whose pairs are, in order, rdf:type rdf:Statement,
\* rdf:subject s, rdf:predicate p, rdf:object o and the extra pairs; the
\* blank node is the same for every list of extra pairs.
C26_ReificationComplete ==
    (pending_call.op = "write_about_statement" /\ call_result.kind = "str") =>
        LET a == pending_call.args
            node == BlankNode(a.subject, a.predicate, a.object)
        IN /\ WellPunctuated(call_result.val, node, 4 + Len(a.predicates))
           /\ BlockPairs(call_result.val, node) =
                 <<<<"r","d","f",":","t","y","p","e"," ","r","d","f",":","S",
                     "t","a","t","e","m","e","n","t">>,
                   <<"r","d","f",":","s","u","b","j","e","c","t"," ">> \o a.subject,
                   <<"r","d","f",":","p","r","e","d","i","c","a","t","e"," ">> \o a.predicate,
                   <<"r","d","f",":","o","b","j","e","c","t"," ">> \o a.object>>
                 \o [i \in 1..Len(a.predicates) |->
                        a.predicates[i][1] \o <<" ">> \o a.predicates[i][2]]
           /\ \A e \in SeqsUpTo(PredObjPairs, MaxPairs) :
                 StartsWith(write_about_statement(a.subject, a.predicate,
                                                  a.object, e),
                            node \o <<" ">>)

\* a triple has been reified with two different extra pairs
C26_Witness ==
    /\ pending_call.op = "write_about_statement"
    /\ call_result.kind = "str"
    /\ Len(pending_call.args.predicates) = 2
    /\ pending_call.args.predicates[1] # pending_call.args.predicates[2]


(***************************************************************************)
(* Properties of gather_Rs and rdf_nb.                                     *)
(***************************************************************************)
\* a call of gather_Rs on a cell of the column repetition_index of the table,
\* or of rdf_nb on a row of the table, with Rs and xls_mhdb bound
RepetitionCall ==
    /\ pending_call.op \in {"gather_Rs", "rdf_nb"}
    /\ pending_call.args.bound = {"Rs", "xls_mhdb"}
    /\ pending_call.args.Neutral_Behaviors \in RepetitionTables
    /\ pending_call.op = "gather_Rs" =>
          \E i \in 1..Len(pending_call.args.Neutral_Behaviors) :
              pending_call.args.Neutral_Behaviors[i].repetition_index
                  = pending_call.args.rb
    /\ pending_call.op = "rdf_nb" =>
          RowsOf(pending_call.args.Neutral_Behaviors,
                 pending_call.args.index) # <<>>

\* C27: on every table whose repetition indices name rows of the table, one
\* whose 'R' rows point at each other included, a call of gather_Rs or of
\* rdf_nb that has ended has returned: a list, or a text.  A recursion that
\* does not end is cut by the interpreter at its recursion limit, so a call
\* that does not terminate is one that ends in RecursionError.
C27_RepetitionTerminates ==
    (RepetitionCall /\ call_result # Pending)
        => call_result.kind \in {"list", "str"}

\* C30: in the text rdf_nb returns for a row, every label L that the symptom
\* statement names as 'rdfs:subClassOf mhdbnb:<label of L>' has its class
\* block 'mhdbnb:<label of L> rdfs:subClassOf
\* health-lifesci:MedicalSignOrSymptom', the third label included.
C30_EveryBehaviourClassDefined ==
    (pending_call.op = "rdf_nb" /\ call_result.kind = "str") =>
        LET labels == LabelsOf(RowsOf(pending_call.args.Neutral_Behaviors,
                                      pending_call.args.index)[1])
        IN \A i \in 1..Len(labels) :
              (/\ IsStr(labels[i])
               /\ convert_string_to_label(labels[i]) # Raise
               /\ Contains(call_result.val,
                      <<"r","d","f","s",":","s","u","b","C","l","a","s","s",
                        "O","f"," ","m","h","d","b","n","b",":">>
                          \o convert_string_to_label(labels[i]).val))
              => Contains(call_result.val,
                     <<"m","h","d","b","n","b",":">> \o convert_string_to_label(labels[i]).val
                         \o <<" ","r","d","f","s",":","s","u","b","C","l","a",
                              "s","s","O","f"," ","h","e","a","l","t","h","-",
                              "l","i","f","e","s","c","i",":","M","e","d","i",
                              "c","a","l","S","i","g","n","O","r","S","y","m",
                              "p","t","o","m">>)

=============================================================================
